---- MODULE Spec2Model ----
(***************************************************************************)
(* devalue: the asynchronous channel multiplexer (stringifyAsync), the     *)
(* demultiplexer (parseAsync) and the flatten/unflatten graph codec they   *)
(* are built on.                                                           *)
(*                                                                         *)
(* Scheduling model.  JavaScript is single threaded: one action of this    *)
(* module is one run of synchronous code together with the microtasks it   *)
(* makes runnable, up to the next point where the program waits for the    *)
(* environment (a source settling, the consumer pulling, the transport    *)
(* delivering a line).                                                     *)
(***************************************************************************)
EXTENDS Integers, Sequences, FiniteSets, TLC

\* ------------------------------------------------------------------------
\* Bounds of the model
\* ------------------------------------------------------------------------
MaxCh == 3
MaxHead == 2
MaxYield == 1

\* ------------------------------------------------------------------------
\* Status codes (src/src/async.js 28-33)
\* ------------------------------------------------------------------------
PROMISE_STATUS_FULFILLED == 0
PROMISE_STATUS_REJECTED == 1
ASYNC_ITERABLE_STATUS_YIELD == 0
ASYNC_ITERABLE_STATUS_ERROR == 1
ASYNC_ITERABLE_STATUS_RETURN == 2

Chan == 1..MaxCh
Kinds == {"P", "I"}

\* A payload: what was flattened.  tag names the origin of the value, n tells
\* the yields of one source apart.
V(tag, n) == [tag |-> tag, n |-> n]
\* A placeholder in a flattened payload: ["Promise", id] or ["AsyncIterable", id].
Ref(id, k) == [id |-> id, kind |-> k]
\* One chunk as the inner generator of a channel yields it: [status, payload].
Chunk(s, v, refs) == [st |-> s, val |-> v, refs |-> refs]
NoChunk == Chunk(0, V("none", 0), {})
\* One line of output: the head has ch = 0.
Line(c, ch) == [ch |-> c, st |-> ch.st, val |-> ch.val, refs |-> ch.refs]

RECURSIVE SeqToSet(_)
SeqToSet(s) == IF s = <<>> THEN {} ELSE {Head(s)} \cup SeqToSet(Tail(s))

RECURSIVE Without(_, _)
Without(s, x) ==
    IF s = <<>> THEN <<>>
    ELSE IF Head(s) = x THEN Tail(s)
    ELSE <<Head(s)>> \o Without(Tail(s), x)

RECURSIVE Filter(_, _)
Filter(s, c) ==
    IF s = <<>> THEN <<>>
    ELSE IF Head(s).ch = c THEN <<Head(s)>> \o Filter(Tail(s), c)
    ELSE Filter(Tail(s), c)

VARIABLES
    \* ---- the input of one stringifyAsync call
    value,              \* the pending sources of the top-level value, in traversal order
    coerceError,        \* options.coerceError: "none", "ok" or "throws"
    \* ---- stringifyAsync (the outer generator) and its consumer
    sPc,                \* "start", "head", "pull", "line", "closing", "done", "returned", "failed"
    counter,
    out,                \* the lines handed to the consumer
    \* ---- asyncIterableMerge
    pendingIterables,
    activeIterators,    \* the entries, in insertion order, by channel
    running,
    frozen,
    mPc,                \* "init", "race", "yield", "cleanup", "done", "failed"
    mCur,               \* the entry deleted at line 87 whose value is being yielded
    closing,            \* the entries the finally block called return() on
    mErr,               \* the finally block was entered by a throw
    \* ---- per channel: the wrapper generator of registerAsync and the inner one
    kind,               \* "none", "P" (Promise) or "I" (AsyncIterable)
    st,                 \* "new", "await", "item", "last", "done", "threw"
    item,               \* the chunk the wrapper is suspended on
    retq,               \* a return() request queued behind the running step
    \* ---- per channel: the source
    returns,            \* how often the source iterator's return() was invoked
    yields,             \* how many values the source has yielded
    \* ---- history
    produced,           \* the chunks the sources' steps gave rise to, in order of completion
    unflattenable,      \* some failure had a cause that neither stringify nor coerceError could encode
    failed,             \* the channels whose source rejected or threw
    uncoded,            \* the channels where safeCause met a cause stringify could not flatten
    unflat              \* the channels whose source gave a value stringify could not flatten

muxVars == <<value, coerceError, sPc, counter, out, pendingIterables,
             activeIterators, running, frozen, mPc, mCur, closing,
             mErr, kind, st, item, retq, returns, yields, produced,
             unflattenable, failed, uncoded, unflat>>

VARIABLES
    \* ---- the transport parseAsync reads
    wire,               \* the lines that have arrived, the head first
    wireEnd,            \* "open", "closed" (the iterator reports done) or "error" (next() rejects)
    \* ---- parseAsync and its pump
    pPc,                \* "init", "pumping", "ended", "failed", "headfail"
    rd,                 \* how many lines have been read
    enqueueMap,         \* the channel ids that have an enqueue function
    \* ---- per channel: the registerAsync generator of parseAsync and its consumer
    phKind,             \* the placeholder decoded for the id: "none", "P" or "I"
    gPc,                \* "none", "unstarted", "await", "yield", "done"
    buffer,
    deferred,           \* the current deferred is resolved
    uPc,                \* "none", "idle", "waiting", "fulfilled", "rejected", "returned",
                        \* "unknown", "threw", "interrupted", "dropped", and
                        \* "dropping" (waiting, with a return() queued)
    got,                \* the items the consumer took from the buffer, in order
    \* ---- history
    arrived             \* per channel, the chunks read since its placeholder was decoded

demuxVars == <<wire, wireEnd, pPc, rd, enqueueMap, phKind, gPc, buffer,
               deferred, uPc, got, arrived>>

VARIABLES
    \* ---- one stringify / unflatten round trip
    cv,                 \* the value: its objects (heap) and its root
    ct,                 \* the FlatTable stringify produced
    cd,                 \* the value unflatten built
    cPc                 \* "idle", "value", "flat", "decoded"

codecVars == <<cv, ct, cd, cPc>>

VARIABLES
    \* ---- several calls of stringifyAsync side by side
    calls,              \* per call, the state local to it
    assigned            \* the ids registerAsync returned, as [call, idx], in order of time

callVars == <<calls, assigned>>

VARIABLES
    \* ---- readableStreamFrom(it), read directly or through asyncIterableFrom
    pipe                \* the iterator it, the stream, its reader and the generator of asyncIterableFrom

streamVars == <<pipe>>

vars == <<muxVars, demuxVars, codecVars, callVars, streamVars>>

\* What the actions of stringifyAsync, and those of parseAsync and of the
\* transport, leave alone.
besideMux == <<demuxVars, codecVars, callVars, streamVars>>
besideDemux == <<muxVars, codecVars, callVars, streamVars>>

\* ------------------------------------------------------------------------
\* The state of one stringifyAsync call as a record, for the operators below
\* ------------------------------------------------------------------------
Session ==
    [sPc |-> sPc, counter |-> counter, out |-> out,
     pendingIterables |-> pendingIterables, activeIterators |-> activeIterators,
     running |-> running, frozen |-> frozen, mPc |-> mPc, mCur |-> mCur,
     closing |-> closing, mErr |-> mErr, kind |-> kind, st |-> st,
     item |-> item, retq |-> retq, returns |-> returns, threw |-> FALSE]

\* The next state is the record S (evaluated once, as the value T).
Becomes(S) ==
    \E T \in {S} :
        /\ sPc' = T.sPc
        /\ counter' = T.counter
        /\ out' = T.out
        /\ pendingIterables' = T.pendingIterables
        /\ activeIterators' = T.activeIterators
        /\ running' = T.running
        /\ frozen' = T.frozen
        /\ mPc' = T.mPc
        /\ mCur' = T.mCur
        /\ closing' = T.closing
        /\ mErr' = T.mErr
        /\ kind' = T.kind
        /\ st' = T.st
        /\ item' = T.item
        /\ retq' = T.retq
        /\ returns' = T.returns

\* ------------------------------------------------------------------------
\* asyncIterableMerge.add (lines 53-67) and registerAsync (lines 129-143)
\* ------------------------------------------------------------------------
\* A faulty add: a source met while the merge is running is queued like one
\* met before it started.
addPending(S, c) ==
    IF S.frozen THEN [S EXCEPT !.threw = TRUE]
    ELSE [S EXCEPT !.pendingIterables = Append(@, c)]

\* A faulty add: the entry of a source met while the merge is running is put
\* in front of the entries the set already holds.
addFront(S, c) ==
    IF S.frozen THEN [S EXCEPT !.threw = TRUE]
    ELSE IF ~S.running THEN [S EXCEPT !.pendingIterables = Append(@, c)]
    ELSE [S EXCEPT !.activeIterators = <<c>> \o @, !.st[c] = "await"]

add(S, c) ==
    IF S.frozen THEN [S EXCEPT !.threw = TRUE]
    ELSE IF ~S.running THEN [S EXCEPT !.pendingIterables = Append(@, c)]
    ELSE [S EXCEPT !.activeIterators = Append(@, c), !.st[c] = "await"]

registerAsync(S, k) ==
    LET idx == S.counter + 1
    IN  add([S EXCEPT !.counter = idx, !.kind[idx] = k], idx)

RECURSIVE registerAll(_, _)
registerAll(S, ks) ==
    IF ks = <<>> THEN S ELSE registerAll(registerAsync(S, Head(ks)), Tail(ks))

\* The placeholders stringify writes for the sources ks met from counter c on.
Placeholders(c, ks) == {Ref(c + i, ks[i]) : i \in 1..Len(ks)}

\* ------------------------------------------------------------------------
\* safeCause (lines 195-204)
\* ------------------------------------------------------------------------
\* A faulty safeCause: options.coerceError is never consulted and the cause
\* is written as it is.
safeCauseUncoerced(causeOk) == V("cause", 0)

\* causeOk: stringify(cause, revivers) succeeds.  The result is the payload,
\* or "throw" when safeCause throws.
safeCause(causeOk) ==
    IF causeOk THEN V("cause", 0)
    ELSE IF coerceError = "none" THEN V("throw", 0)
    ELSE IF coerceError = "ok" THEN V("coerced", 0)
    ELSE V("throw", 0)

\* ------------------------------------------------------------------------
\* stringify(value, revivers) of a payload inside a channel's generator
\* ------------------------------------------------------------------------
\* valOk: the value can be flattened; nest: the pending source it contains.
\* The Promise / AsyncIterable reducers (lines 148-191) register the source.
stringifyPayload(S, valOk, nest) ==
    IF ~valOk THEN [ok |-> FALSE, S |-> S, refs |-> {}]
    ELSE IF nest = "none" THEN [ok |-> TRUE, S |-> S, refs |-> {}]
    ELSE LET S2 == registerAsync(S, nest)
         IN  [ok |-> ~S2.threw, S |-> [S2 EXCEPT !.threw = FALSE],
              refs |-> {Ref(S.counter + 1, nest)}]

\* A faulty PromiseStep: a fulfilled future is written with the status a
\* sequence uses for return.
PromiseStepAsReturn(S, outcome, valOk, nest, causeOk) ==
    LET f == stringifyPayload(S, valOk, nest)
        p == safeCause(causeOk)
        S2 == IF outcome = "fulfil" THEN f.S ELSE S
    IN  IF outcome = "fulfil" /\ f.ok
        THEN [res |-> "last", S |-> f.S, fin |-> 0,
              chunk |-> Chunk(ASYNC_ITERABLE_STATUS_RETURN, V("value", 0), f.refs)]
        ELSE IF p.tag = "throw"
        THEN [res |-> "threw", S |-> S2, fin |-> 0, chunk |-> NoChunk]
        ELSE [res |-> "last", S |-> S2, fin |-> 0,
              chunk |-> Chunk(PROMISE_STATUS_REJECTED, p, {})]

\* A faulty PromiseStep: the yield of line 158 stands outside the try block,
\* so a value that cannot be flattened makes the generator throw.
PromiseStepUncaught(S, outcome, valOk, nest, causeOk) ==
    LET f == stringifyPayload(S, valOk, nest)
        p == safeCause(causeOk)
    IN  IF outcome = "fulfil" /\ f.ok
        THEN [res |-> "last", S |-> f.S, fin |-> 0,
              chunk |-> Chunk(PROMISE_STATUS_FULFILLED, V("value", 0), f.refs)]
        ELSE IF outcome = "fulfil" \/ p.tag = "throw"
        THEN [res |-> "threw", S |-> IF outcome = "fulfil" THEN f.S ELSE S,
              fin |-> 0, chunk |-> NoChunk]
        ELSE [res |-> "last", S |-> S, fin |-> 0,
              chunk |-> Chunk(PROMISE_STATUS_REJECTED, p, {})]

\* The generator of the Promise reducer (lines 155-162), from `await v` on.
PromiseStep(S, outcome, valOk, nest, causeOk) ==
    LET f == stringifyPayload(S, valOk, nest)
        p == safeCause(causeOk)
        S2 == IF outcome = "fulfil" THEN f.S ELSE S
    IN  IF outcome = "fulfil" /\ f.ok
        THEN [res |-> "last", S |-> f.S, fin |-> 0,
              chunk |-> Chunk(PROMISE_STATUS_FULFILLED, V("value", 0), f.refs)]
        ELSE IF p.tag = "throw"
        THEN [res |-> "threw", S |-> S2, fin |-> 0, chunk |-> NoChunk]
        ELSE [res |-> "last", S |-> S2, fin |-> 0,
              chunk |-> Chunk(PROMISE_STATUS_REJECTED, p, {})]

\* A faulty IterableStep: without the catch clause of line 185, a throwing
\* step or an unflattenable value makes the generator throw.
IterableStepNoCatch(S, n, outcome, valOk, nest, causeOk) ==
    LET f == stringifyPayload(S, valOk, nest)
    IN  IF outcome = "yield" /\ f.ok
        THEN [res |-> "item", S |-> f.S, fin |-> 0,
              chunk |-> Chunk(ASYNC_ITERABLE_STATUS_YIELD, V("yield", n + 1), f.refs)]
        ELSE IF outcome = "return" /\ f.ok
        THEN [res |-> "last", S |-> f.S, fin |-> 0,
              chunk |-> Chunk(ASYNC_ITERABLE_STATUS_RETURN, V("return", 0), f.refs)]
        ELSE [res |-> "threw", S |-> IF outcome = "throw" THEN S ELSE f.S,
              fin |-> 1, chunk |-> NoChunk]

\* The generator of the AsyncIterable reducer (lines 168-190), from
\* `await iterator.next()` on.  fin counts the iterator.return() of the
\* finally block when the step leaves the generator.
IterableStep(S, n, outcome, valOk, nest, causeOk) ==
    LET f == stringifyPayload(S, valOk, nest)
        p == safeCause(causeOk)
        S2 == IF outcome = "throw" THEN S ELSE f.S
    IN  IF outcome = "yield" /\ f.ok
        THEN [res |-> "item", S |-> f.S, fin |-> 0,
              chunk |-> Chunk(ASYNC_ITERABLE_STATUS_YIELD, V("yield", n + 1), f.refs)]
        ELSE IF outcome = "return" /\ f.ok
        THEN [res |-> "last", S |-> f.S, fin |-> 0,
              chunk |-> Chunk(ASYNC_ITERABLE_STATUS_RETURN, V("return", 0), f.refs)]
        ELSE IF p.tag = "throw"
        THEN [res |-> "threw", S |-> S2, fin |-> 1, chunk |-> NoChunk]
        ELSE [res |-> "last", S |-> S2, fin |-> 0,
              chunk |-> Chunk(ASYNC_ITERABLE_STATUS_ERROR, p, {})]

\* A generator of a channel of kind k that is closed at a yield, or resumed
\* after its last chunk, runs its finally block: line 188 calls the source's
\* return() for a sequence; a Promise has none.
CloseCount(k) == IF k = "I" THEN 1 ELSE 0

\* ------------------------------------------------------------------------
\* asyncIterableMerge[Symbol.asyncIterator] (lines 69-106)
\* ------------------------------------------------------------------------
Settled(S, c) == S.st[c] \in {"item", "last", "done", "threw"}

\* Promise.race (lines 81-85): of the entries already settled the first in
\* insertion order wins; 0 when none is settled.
RECURSIVE FirstSettled(_, _)
FirstSettled(S, es) ==
    IF es = <<>> THEN 0
    ELSE IF Settled(S, Head(es)) THEN Head(es)
    ELSE FirstSettled(S, Tail(es))

\* The entries the finally block calls return() on (line 99).
CleanupEntries(S) == SeqToSet(S.activeIterators)

\* Lines 101-104, once allSettled (line 98) has resolved.
Unwind(S) ==
    IF S.mPc = "cleanup" /\ \A c \in S.closing : S.st[c] \in {"done", "threw"}
    THEN [S EXCEPT !.activeIterators = <<>>, !.pendingIterables = <<>>,
                   !.frozen = TRUE, !.running = FALSE,
                   !.mPc = IF S.mErr THEN "failed" ELSE "done",
                   !.sPc = IF S.mErr THEN "failed"
                           ELSE IF S.sPc = "closing" THEN "returned" ELSE "done"]
    ELSE S

\* A faulty Finally: return() closes a wrapper whose step is still running
\* at once, as it does one that is suspended at its yield.
FinallyAtOnce(S, err) ==
    LET es == CleanupEntries(S)
    IN  Unwind([S EXCEPT
            !.closing = es,
            !.mErr = err,
            !.mPc = "cleanup",
            !.returns = [c \in Chan |-> IF c \in es /\ S.st[c] \in {"await", "item", "last"}
                                        THEN @[c] + CloseCount(S.kind[c]) ELSE @[c]],
            !.st = [c \in Chan |-> IF c \in es /\ S.st[c] \in {"await", "item", "last"}
                                   THEN "done" ELSE @[c]]])

\* The finally block (lines 96-105): return() on every entry.  A wrapper
\* suspended at its yield is closed at once; one that is running queues the
\* request behind its step.
Finally(S, err) ==
    LET es == CleanupEntries(S)
    IN  Unwind([S EXCEPT
            !.closing = es,
            !.mErr = err,
            !.mPc = "cleanup",
            !.retq = [c \in Chan |-> IF c \in es /\ S.st[c] = "await" THEN TRUE ELSE @[c]],
            !.returns = [c \in Chan |-> IF c \in es /\ S.st[c] \in {"item", "last"}
                                        THEN @[c] + CloseCount(S.kind[c]) ELSE @[c]],
            !.st = [c \in Chan |-> IF c \in es /\ S.st[c] \in {"item", "last"}
                                   THEN "done" ELSE @[c]]])

\* A faulty Emit: the line is put in front of the lines emitted so far.
EmitFirst(lines, l) == <<l>> \o lines

\* Line 209: the consumer is handed one more line.
Emit(lines, l) == Append(lines, l)

\* A faulty Deleted: the winner stays in the set.
NotDeleted(es, w) == es

\* The entries left after line 87 deletes the winner.
Deleted(es, w) == Without(es, w)

\* The while loop (lines 80-95) from its head, up to the next suspension.
RECURSIVE Race(_)
Race(S) ==
    IF S.activeIterators = <<>> THEN Finally(S, FALSE)
    ELSE LET w == FirstSettled(S, S.activeIterators)
         IN  IF w = 0 THEN [S EXCEPT !.mPc = "race", !.sPc = "pull"]
             ELSE IF S.st[w] = "threw" THEN Finally(S, TRUE)
             ELSE IF S.st[w] = "done"
             THEN Race([S EXCEPT !.activeIterators = Deleted(@, w)])
             ELSE [S EXCEPT !.activeIterators = Deleted(@, w),
                            !.out = Emit(@, Line(w, S.item[w])),
                            !.mCur = w, !.mPc = "yield", !.sPc = "line"]

\* A faulty Readd: the entry of the value just yielded is not put back.
ReaddForgotten(S, c) == [S EXCEPT !.mCur = 0]

\* Lines 90-93: the entry of the value just yielded is put back with a new
\* next().  A wrapper resumed after a yielded value asks its source for the
\* next step; one resumed after its last chunk runs to completion.
Readd(S, c) ==
    [S EXCEPT !.activeIterators = Append(@, c),
              !.mCur = 0,
              !.st[c] = IF S.st[c] = "item" THEN "await" ELSE "done",
              !.returns[c] = IF S.st[c] = "item" THEN @ ELSE @ + CloseCount(S.kind[c])]

\* Lines 74-78: every pending iterable is started.
StartAll(S) ==
    [S EXCEPT !.running = TRUE,
              !.activeIterators = @ \o S.pendingIterables,
              !.pendingIterables = <<>>,
              !.st = [c \in Chan |-> IF c \in SeqToSet(S.pendingIterables)
                                     THEN "await" ELSE @[c]]]

\* ------------------------------------------------------------------------
\* Initial state
\* ------------------------------------------------------------------------
RECURSIVE SeqsUpTo(_, _)
SeqsUpTo(S, n) ==
    IF n = 0 THEN {<<>>}
    ELSE LET shorter == SeqsUpTo(S, n - 1)
         IN  shorter \cup {Append(s, x) : s \in shorter, x \in S}

InitMux ==
    /\ value \in SeqsUpTo(Kinds, MaxHead)
    /\ coerceError \in {"none", "ok", "throws"}
    /\ sPc = "start"
    /\ counter = 0
    /\ out = <<>>
    /\ pendingIterables = <<>>
    /\ activeIterators = <<>>
    /\ running = FALSE
    /\ frozen = FALSE
    /\ mPc = "init"
    /\ mCur = 0
    /\ closing = {}
    /\ mErr = FALSE
    /\ kind = [c \in Chan |-> "none"]
    /\ st = [c \in Chan |-> "new"]
    /\ item = [c \in Chan |-> NoChunk]
    /\ retq = [c \in Chan |-> FALSE]
    /\ returns = [c \in Chan |-> 0]
    /\ yields = [c \in Chan |-> 0]
    /\ produced = <<>>
    /\ unflattenable = FALSE
    /\ failed = {}
    /\ uncoded = {}
    /\ unflat = {}

\* ------------------------------------------------------------------------
\* Actions of stringifyAsync
\* ------------------------------------------------------------------------
\* The consumer's first next(): line 206, the head.
StartHead ==
    /\ sPc = "start"
    /\ \E S \in {registerAll(Session, value)} :
          Becomes([S EXCEPT
              !.out = <<Line(0, Chunk(0, V("head", 0), Placeholders(counter, value)))>>,
              !.sPc = "head"])
    /\ UNCHANGED <<value, coerceError, yields, produced, unflattenable, failed, uncoded, unflat>>
    /\ UNCHANGED besideMux

\* The second next(): line 208 starts the merge generator (lines 70-85).
StartMerge ==
    /\ sPc = "head"
    /\ \E S \in {StartAll(Session)} : Becomes(Race(S))
    /\ UNCHANGED <<value, coerceError, yields, produced, unflattenable, failed, uncoded, unflat>>
    /\ UNCHANGED besideMux

\* A later next(): the merge generator resumes after line 89.
ResumeMerge ==
    /\ sPc = "line"
    /\ mPc = "yield"
    /\ \E S \in {Readd(Session, mCur)} : Becomes(Race(S))
    /\ UNCHANGED <<value, coerceError, yields, produced, unflattenable, failed, uncoded, unflat>>
    /\ UNCHANGED besideMux

\* The source of channel c completes the step it was asked for; the channel's
\* generators run up to their yield, and the merge generator goes on when
\* it was waiting for the race.
SourceStep(c) ==
    /\ kind[c] # "none"
    /\ st[c] = "await"
    /\ \E outcome \in IF kind[c] = "P" THEN {"fulfil", "reject"}
                      ELSE {"return", "throw"}
                           \cup (IF yields[c] < MaxYield THEN {"yield"} ELSE {}),
          valOk \in BOOLEAN, causeOk \in BOOLEAN,
          nest \in {"none"} \cup (IF counter < MaxCh THEN Kinds ELSE {}) :
        /\ (outcome \in {"reject", "throw"} => valOk /\ nest = "none")
        /\ (~valOk => nest = "none")
        /\ (outcome \in {"fulfil", "yield", "return"} /\ valOk /\ (nest = "none" \/ ~frozen)
                => causeOk)
        /\ \E r \in {IF kind[c] = "P"
                      THEN PromiseStep(Session, outcome, valOk, nest, causeOk)
                      ELSE IterableStep(Session, yields[c], outcome, valOk, nest, causeOk)} :
           \E closed \in {retq[c] /\ r.res \in {"item", "last"}} :
           \E S1 \in {[r.S EXCEPT
                         !.st[c] = IF closed THEN "done" ELSE r.res,
                         !.item[c] = r.chunk,
                         !.returns[c] = @ + r.fin
                                        + (IF closed THEN CloseCount(kind[c]) ELSE 0)]} :
            /\ IF mPc = "race" /\ c \in SeqToSet(activeIterators)
               THEN Becomes(Race(S1))
               ELSE Becomes(Unwind(S1))
            /\ yields' = [yields EXCEPT ![c] = IF outcome = "yield" THEN @ + 1 ELSE @]
            /\ produced' = IF r.res = "threw" THEN produced
                           ELSE Append(produced, Line(c, r.chunk))
            /\ unflattenable' = (unflattenable \/ (~causeOk /\ coerceError # "ok"))
            /\ failed' = IF outcome \in {"reject", "throw"} THEN failed \cup {c} ELSE failed
            /\ uncoded' = IF causeOk THEN uncoded ELSE uncoded \cup {c}
            /\ unflat' = IF valOk THEN unflat ELSE unflat \cup {c}
    /\ UNCHANGED <<value, coerceError>>
    /\ UNCHANGED besideMux

\* The consumer abandons the output: return() on stringifyAsync.  Suspended
\* at line 209 the for-await of line 208 closes the merge generator, which
\* is suspended at line 89; at line 206, or before the first next(), no
\* finally block is in scope.
ConsumerReturn ==
    /\ sPc \in {"start", "head", "line"}
    /\ IF sPc = "line"
       THEN \E S \in {[Session EXCEPT !.sPc = "closing"]} : Becomes(Finally(S, FALSE))
       ELSE Becomes([Session EXCEPT !.sPc = "returned"])
    /\ UNCHANGED <<value, coerceError, yields, produced, unflattenable, failed, uncoded, unflat>>
    /\ UNCHANGED besideMux

\* ------------------------------------------------------------------------
\* parseAsync (lines 249-361)
\* ------------------------------------------------------------------------
MaxLines == 3

\* A status that neither reviver of parseAsync knows (the default of the
\* switch at line 299; no case of the switch at lines 309-317).
UNKNOWN_STATUS == 3

\* A buffered item: a chunk [status, value], or the Error the pump enqueues.
Item(l) == [err |-> FALSE, st |-> l.st, val |-> l.val, refs |-> l.refs]
Interrupt == [err |-> TRUE, st |-> 0, val |-> V("interrupted", 0), refs |-> {}]
\* A line whose channel id is not a number (assertNumber, lines 218-222).
BadLine == [ch |-> -1, st |-> 0, val |-> V("bad", 0), refs |-> {}]

InitDemux ==
    /\ wire = <<>>
    /\ wireEnd = "open"
    /\ pPc = "init"
    /\ rd = 0
    /\ enqueueMap = {}
    /\ phKind = [c \in Chan |-> "none"]
    /\ gPc = [c \in Chan |-> "none"]
    /\ buffer = [c \in Chan |-> <<>>]
    /\ deferred = [c \in Chan |-> FALSE]
    /\ uPc = [c \in Chan |-> "none"]
    /\ got = [c \in Chan |-> <<>>]
    /\ arrived = [c \in Chan |-> <<>>]

Receiver ==
    [enqueueMap |-> enqueueMap, phKind |-> phKind, gPc |-> gPc,
     buffer |-> buffer, deferred |-> deferred, uPc |-> uPc, got |-> got]

Receives(D) ==
    \E T \in {D} :
        /\ enqueueMap' = T.enqueueMap
        /\ phKind' = T.phKind
        /\ gPc' = T.gPc
        /\ buffer' = T.buffer
        /\ deferred' = T.deferred
        /\ uPc' = T.uPc
        /\ got' = T.got

\* registerAsync of parseAsync from its start to the first await (lines
\* 259-270): the buffer, the deferred and the entry of enqueueMap.
parseRegisterAsync(D, id) ==
    [D EXCEPT !.enqueueMap = @ \cup {id},
              !.buffer[id] = <<>>,
              !.deferred[id] = FALSE,
              !.gPc[id] = "await",
              !.uPc[id] = "waiting"]

\* The revivers called by unflatten for one placeholder (lines 289-291 and
\* 304): the Promise reviver is an async function and runs up to the first
\* await of registerAsync; the AsyncIterable reviver is a generator function
\* and returns a generator that has not started.
Revive(D, r) ==
    IF r.kind = "P"
    THEN parseRegisterAsync([D EXCEPT !.phKind[r.id] = "P"], r.id)
    ELSE [D EXCEPT !.phKind[r.id] = "I", !.gPc[r.id] = "unstarted", !.uPc[r.id] = "idle"]

RECURSIVE ReviveAll(_, _)
ReviveAll(D, refs) ==
    IF refs = {} THEN D
    ELSE LET r == CHOOSE x \in refs : \A y \in refs : x.id <= y.id
         IN  ReviveAll(Revive(D, r), refs \ {r})

\* A faulty enqueue: the item is pushed and the deferred is left alone.
enqueueSilent(D, id, v) == [D EXCEPT !.buffer[id] = Append(@, v)]

\* The enqueue function of a channel (lines 264-267).
enqueue(D, id, v) ==
    [D EXCEPT !.buffer[id] = Append(@, v), !.deferred[id] = TRUE]

RECURSIVE enqueueAll(_, _, _)
enqueueAll(D, ids, v) ==
    IF ids = {} THEN D
    ELSE LET id == CHOOSE x \in ids : TRUE
         IN  enqueueAll(enqueue(D, id, v), ids \ {id}, v)

\* A faulty Closed: the finally block of registerAsync (lines 281-283) is
\* left out and the entry stays in enqueueMap.
ClosedKept(D, c, res) == [D EXCEPT !.gPc[c] = "done", !.uPc[c] = res]

\* The generator and its reviver end (finally, line 282) with outcome res.
Closed(D, c, res) ==
    [D EXCEPT !.enqueueMap = @ \ {c}, !.gPc[c] = "done", !.uPc[c] = res]

\* A faulty PromiseOutcome: the two cases of the switch exchanged.
PromiseOutcomeSwapped(v) ==
    IF v.st = PROMISE_STATUS_FULFILLED THEN "rejected"
    ELSE IF v.st = PROMISE_STATUS_REJECTED THEN "fulfilled"
    ELSE "unknown"

\* The outcome of the Promise reviver for one item (lines 292-302).
PromiseOutcome(v) ==
    IF v.st = PROMISE_STATUS_FULFILLED THEN "fulfilled"
    ELSE IF v.st = PROMISE_STATUS_REJECTED THEN "rejected"
    ELSE "unknown"

\* A faulty Drain: an Error anywhere in the buffer is thrown before the items
\* that were pushed ahead of it are yielded.
RECURSIVE DrainErrorFirst(_, _)
DrainErrorFirst(D, c) ==
    IF D.buffer[c] = <<>>
    THEN [D EXCEPT !.gPc[c] = "await",
                   !.uPc[c] = IF @ = "dropping" THEN @ ELSE "waiting"]
    ELSE LET e == \E i \in 1..Len(D.buffer[c]) : D.buffer[c][i].err
             v == IF e THEN Interrupt ELSE Head(D.buffer[c])
             D1 == [D EXCEPT !.buffer[c] = IF e THEN @ ELSE Tail(@),
                             !.got[c] = Append(@, v)]
         IN  IF v.err THEN Closed(D1, c, "interrupted")
             ELSE IF D.phKind[c] = "P" THEN Closed(D1, c, PromiseOutcome(v))
             ELSE IF v.st = ASYNC_ITERABLE_STATUS_YIELD
             THEN IF D.uPc[c] = "dropping" THEN Closed(D1, c, "dropped")
                  ELSE [D1 EXCEPT !.gPc[c] = "yield", !.uPc[c] = "idle"]
             ELSE IF v.st = ASYNC_ITERABLE_STATUS_RETURN THEN Closed(D1, c, "returned")
             ELSE IF v.st = ASYNC_ITERABLE_STATUS_ERROR THEN Closed(D1, c, "threw")
             ELSE DrainErrorFirst(D1, c)

\* The inner loop of registerAsync (lines 273-279) and the reviver that
\* consumes what it yields (lines 292-302, 307-318), up to the next
\* suspension of the consumer.
RECURSIVE Drain(_, _)
Drain(D, c) ==
    IF D.buffer[c] = <<>>
    THEN [D EXCEPT !.gPc[c] = "await",
                   !.uPc[c] = IF @ = "dropping" THEN @ ELSE "waiting"]
    ELSE LET v == Head(D.buffer[c])
             D1 == [D EXCEPT !.buffer[c] = Tail(@), !.got[c] = Append(@, v)]
         IN  IF v.err THEN Closed(D1, c, "interrupted")
             ELSE IF D.phKind[c] = "P" THEN Closed(D1, c, PromiseOutcome(v))
             ELSE IF v.st = ASYNC_ITERABLE_STATUS_YIELD
             THEN IF D.uPc[c] = "dropping" THEN Closed(D1, c, "dropped")
                  ELSE [D1 EXCEPT !.gPc[c] = "yield", !.uPc[c] = "idle"]
             ELSE IF v.st = ASYNC_ITERABLE_STATUS_RETURN THEN Closed(D1, c, "returned")
             ELSE IF v.st = ASYNC_ITERABLE_STATUS_ERROR THEN Closed(D1, c, "threw")
             ELSE Drain(D1, c)

\* A faulty ReadHead: parseAsync waits for the line after the head before it
\* returns.
ReadHeadTwo ==
    /\ pPc = "init"
    /\ rd = 0
    /\ Len(wire) >= 2
    /\ Receives(ReviveAll(Receiver, wire[1].refs))
    /\ pPc' = "pumping"
    /\ rd' = 2
    /\ UNCHANGED <<wire, wireEnd, arrived>>
    /\ UNCHANGED besideDemux

\* Line 323-324: the head is read and decoded.
ReadHead ==
    /\ pPc = "init"
    /\ rd = 0
    /\ \/ /\ Len(wire) >= 1
          /\ Receives(ReviveAll(Receiver, wire[1].refs))
          /\ pPc' = "pumping"
          /\ rd' = 1
       \/ /\ wire = <<>>
          /\ wireEnd # "open"
          /\ pPc' = "headfail"
          /\ UNCHANGED <<rd, enqueueMap, phKind, gPc, buffer, deferred, uPc, got>>
    /\ UNCHANGED <<wire, wireEnd, arrived>>
    /\ UNCHANGED besideDemux

\* Lines 329-337: the pump reads one line and routes it.
PumpLine ==
    /\ pPc = "pumping"
    /\ rd < Len(wire)
    /\ LET l == wire[rd + 1]
       IN  IF l.ch \notin Nat
           THEN /\ Receives(enqueueAll(Receiver, enqueueMap, Interrupt))
                /\ pPc' = "failed"
                /\ UNCHANGED arrived
           ELSE /\ IF l.ch \in enqueueMap
                   THEN Receives(enqueue(ReviveAll(Receiver, l.refs), l.ch, Item(l)))
                   ELSE Receives(Receiver)
                /\ pPc' = pPc
                /\ arrived' = IF l.ch \in Chan /\ phKind[l.ch] # "none"
                              THEN [arrived EXCEPT ![l.ch] = Append(@, Item(l))]
                              ELSE arrived
    /\ rd' = rd + 1
    /\ UNCHANGED <<wire, wireEnd>>
    /\ UNCHANGED besideDemux

\* Lines 330 and 339-343: the transport is done; every channel still in
\* enqueueMap is sent the stream-interrupted error.
PumpEnd ==
    /\ pPc = "pumping"
    /\ rd = Len(wire)
    /\ wireEnd = "closed"
    /\ Receives(enqueueAll(Receiver, enqueueMap, Interrupt))
    /\ pPc' = "ended"
    /\ UNCHANGED <<wire, wireEnd, rd, arrived>>
    /\ UNCHANGED besideDemux

\* Lines 344-357: iterator.next() rejected; the catch handler broadcasts.
PumpFail ==
    /\ pPc = "pumping"
    /\ rd = Len(wire)
    /\ wireEnd = "error"
    /\ Receives(enqueueAll(Receiver, enqueueMap, Interrupt))
    /\ pPc' = "failed"
    /\ UNCHANGED <<wire, wireEnd, rd, arrived>>
    /\ UNCHANGED besideDemux

\* Line 270-271: the generator of channel c resumes after its deferred was
\* resolved, replaces the deferred and drains the buffer.
Wake(c) ==
    /\ gPc[c] = "await"
    /\ deferred[c]
    /\ Receives(Drain([Receiver EXCEPT !.deferred[c] = FALSE], c))
    /\ UNCHANGED <<wire, wireEnd, pPc, rd, arrived>>
    /\ UNCHANGED besideDemux

\* The consumer asks a decoded sequence for its next value.
UserNext(c) ==
    /\ phKind[c] = "I"
    /\ uPc[c] = "idle"
    /\ IF gPc[c] = "unstarted"
       THEN Receives(parseRegisterAsync(Receiver, c))
       ELSE Receives(Drain(Receiver, c))
    /\ UNCHANGED <<wire, wireEnd, pPc, rd, arrived>>
    /\ UNCHANGED besideDemux

\* A faulty UserReturn: dropping one sequence empties every buffer.
UserReturnAll(c) ==
    /\ phKind[c] = "I"
    /\ uPc[c] = "idle"
    /\ Receives(Closed([Receiver EXCEPT !.buffer = [d \in Chan |-> <<>>]], c, "dropped"))
    /\ UNCHANGED <<wire, wireEnd, pPc, rd, arrived>>
    /\ UNCHANGED besideDemux

\* The consumer drops a decoded sequence: return() on it.  Between two steps
\* (or before the first) the generators are closed at once: the reviver's
\* for-await closes registerAsync, whose finally block runs.  While a next()
\* of the consumer is pending the request waits in the generator's queue
\* until that step has produced its result.
UserReturn(c) ==
    /\ phKind[c] = "I"
    /\ uPc[c] \in {"idle", "waiting"}
    /\ IF uPc[c] = "idle"
       THEN Receives(Closed(Receiver, c, "dropped"))
       ELSE Receives([Receiver EXCEPT !.uPc[c] = "dropping"])
    /\ UNCHANGED <<wire, wireEnd, pPc, rd, arrived>>
    /\ UNCHANGED besideDemux

\* ------------------------------------------------------------------------
\* The transport as the environment of parseAsync
\* ------------------------------------------------------------------------
WireRefs == UNION {wire[i].refs : i \in 1..Len(wire)}
WireKind(c) ==
    IF \E r \in WireRefs : r.id = c
    THEN (CHOOSE r \in WireRefs : r.id = c).kind ELSE "none"
\* The channel's terminal chunk is on the wire.
rxVars == <<pPc, rd, enqueueMap, phKind, gPc, buffer, deferred, uPc, got, arrived>>

WireTerminal(c) ==
    \E i \in 2..Len(wire) :
        /\ wire[i].ch = c
        /\ (WireKind(c) = "P" \/ wire[i].st # ASYNC_ITERABLE_STATUS_YIELD)

EnvHead ==
    /\ wire = <<>>
    /\ wireEnd = "open"
    /\ \E ks \in SeqsUpTo(Kinds, MaxHead) :
          wire' = <<Line(0, Chunk(0, V("head", 0), Placeholders(0, ks)))>>
    /\ UNCHANGED <<wireEnd, rxVars, besideDemux>>

EnvChunk ==
    /\ wire # <<>>
    /\ wireEnd = "open"
    /\ Len(wire) < MaxLines
    /\ \E c \in Chan,
          s \in {ASYNC_ITERABLE_STATUS_YIELD, ASYNC_ITERABLE_STATUS_ERROR,
                 ASYNC_ITERABLE_STATUS_RETURN, UNKNOWN_STATUS},
          nest \in {"none"} \cup (IF Cardinality(WireRefs) < MaxCh THEN Kinds ELSE {}) :
        /\ ~WireTerminal(c)
        /\ s = ASYNC_ITERABLE_STATUS_ERROR => nest = "none"
        /\ wire' = Append(wire,
              Line(c, Chunk(s, V("chunk", Len(wire)),
                            IF nest = "none" THEN {}
                            ELSE {Ref(Cardinality(WireRefs) + 1, nest)})))
    /\ UNCHANGED <<wireEnd, rxVars, besideDemux>>

EnvBad ==
    /\ wire # <<>>
    /\ wireEnd = "open"
    /\ Len(wire) < MaxLines
    /\ wire' = Append(wire, BadLine)
    /\ UNCHANGED <<wireEnd, rxVars, besideDemux>>

EnvEnd ==
    /\ wireEnd = "open"
    /\ wireEnd' \in {"closed", "error"}
    /\ UNCHANGED <<wire, rxVars, besideDemux>>

\* ------------------------------------------------------------------------
\* Values, FlatTables, flatten and unflatten (stringify.js and parse.js)
\* ------------------------------------------------------------------------
MaxObj == 2
MaxKids == 2

\* A position of a value holds a primitive or one of the value's objects.
Prim(x) == [t |-> "p", o |-> 0, v |-> x]
Obj(i) == [t |-> "o", o |-> i, v |-> ""]

\* The objects: lists, plain records, Maps (keys and values alternate), Sets
\* and instances of a registered custom type (one inner value).
Arr(kids) == [kind |-> "Array", tag |-> "", keys |-> <<>>, kids |-> kids]
Rec(keys, kids) == [kind |-> "Object", tag |-> "", keys |-> keys, kids |-> kids]
MapOf(kids) == [kind |-> "Map", tag |-> "", keys |-> <<>>, kids |-> kids]
SetOf(kids) == [kind |-> "Set", tag |-> "", keys |-> <<>>, kids |-> kids]
Cust(tag, kid) == [kind |-> "Custom", tag |-> tag, keys |-> <<>>, kids |-> <<kid>>]

Value(heap, root) == [heap |-> heap, root |-> root]
NoValue == Value(<<>>, Prim(""))

\* The Parts of a FlatTable; the Part of ReferenceId i is at position i + 1.
PendingPart == [t |-> "pending", tag |-> "", keys |-> <<>>, ids |-> <<>>, v |-> ""]
PrimPart(x) == [t |-> "prim", tag |-> "", keys |-> <<>>, ids |-> <<>>, v |-> x]
CompositePart(ob, ids) ==
    [t |-> ob.kind, tag |-> ob.tag, keys |-> ob.keys, ids |-> ids, v |-> ""]

\* The values written as a negative code in place of a ReferenceId.
UNDEFINED == -1
HOLE == -2
NAN == -3
POSITIVE_INFINITY == -4
NEGATIVE_INFINITY == -5
NEGATIVE_ZERO == -6

\* undefined, NaN, the infinities and -0; "hole" is the absent index of a list.
Special(x) == [t |-> "s", o |-> 0, v |-> x]
Hole == Special("hole")
Code(x) ==
    CASE x = "undefined" -> UNDEFINED
      [] x = "hole" -> HOLE
      [] x = "NaN" -> NAN
      [] x = "Infinity" -> POSITIVE_INFINITY
      [] x = "-Infinity" -> NEGATIVE_INFINITY
      [] x = "-0" -> NEGATIVE_ZERO

\* function invalid() {}
Fn == [t |-> "f", o |-> 0, v |-> "invalid"]

\* A plain record with a symbolic key, enumerable or not.
RecSym(keys, kids, sym) ==
    [kind |-> "Object", tag |-> "", keys |-> keys, kids |-> kids, sym |-> sym]
\* A faulty SymOf: a symbolic key counts whether it is enumerable or not.
SymOfAny(ob) == IF "sym" \in DOMAIN ob THEN "enumerable" ELSE "none"

\* The enumerable symbolic keys of a record.
SymOf(ob) == IF "sym" \in DOMAIN ob THEN ob.sym ELSE "none"

\* The structured error of a failed flatten.
NoError == [message |-> "", path |-> "", value |-> Prim(""), root |-> Prim("")]

RECURSIVE Join(_)
Join(keys) == IF keys = <<>> THEN "" ELSE Head(keys) \o Join(Tail(keys))

DevalueError(message, keys, thing, root) ==
    [message |-> message, path |-> Join(keys), value |-> thing, root |-> root]

\* The accessor of a key: .foo for an identifier, ["string-key"] otherwise.
stringify_key(key) ==
    IF key \in {"string-key", "x-y"} THEN "[\"" \o key \o "\"]" ELSE "." \o key

\* The accessor pushed while child i of an object is visited: an index for
\* a list, the key for a record, .get(key) for the key and the value of a
\* Map entry, nothing for a Set member or the result of a reducer.
Segments(ob, i) ==
    CASE ob.kind = "Array" -> <<"[" \o ToString(i - 1) \o "]">>
      [] ob.kind = "Object" -> <<stringify_key(ob.keys[i])>>
      [] ob.kind = "Map" ->
            LET key == ob.kids[2 * ((i + 1) \div 2) - 1]
            IN  <<".get(" \o (IF key.t = "p" THEN "\"" \o key.v \o "\"" ELSE "...") \o ")">>
      [] OTHER -> <<>>

\* A reducer of the reducers object: fn is x instanceof class && x.value
\* ("value"), x instanceof class && '' ("empty"), or not a function at all;
\* own tells an own entry from an inherited one.
Reducer(key, class, fn, own) == [key |-> key, class |-> class, fn |-> fn, own |-> own]

\* A faulty OwnReducers: inherited entries are consulted as well.
AllReducers(reducers) == reducers

\* Object.getOwnPropertyNames(reducers), in registration order.
OwnReducers(reducers) == SelectSeq(reducers, LAMBDA r : r.own)

Truthy(s) ==
    CASE s.t = "p" -> s.v \notin {"", "0", "false", "null"}
      [] s.t = "s" -> s.v \in {"Infinity", "-Infinity"}
      [] OTHER -> TRUE

\* fn(thing) of one reducer.
Apply(red, h, s) ==
    IF s.t = "o" /\ h[s.o].kind = "Custom" /\ h[s.o].tag = red.class
    THEN IF red.fn = "value" THEN h[s.o].kids[1] ELSE Prim("")
    ELSE Prim("false")

\* The first reducer from position i on whose result is truthy, 0 when all
\* decline, -1 when an entry that is consulted is not a function.
RECURSIVE Reduced(_, _, _, _)
Reduced(custom, i, h, s) ==
    IF i > Len(custom) THEN 0
    ELSE IF custom[i].fn = "notfn" THEN -1
    ELSE IF Truthy(Apply(custom[i], h, s)) THEN i
    ELSE Reduced(custom, i + 1, h, s)

TaggedPart(tag, id) == [t |-> "Custom", tag |-> tag, keys |-> <<>>, ids |-> <<id>>, v |-> ""]
DatePart(iso) == [t |-> "Date", tag |-> "", keys |-> <<>>, ids |-> <<>>, v |-> iso]

Throw(F, message, thing) ==
    [F |-> [F EXCEPT !.error = DevalueError(message, F.keys, thing, F.root)], id |-> 0]

\* The state of one stringify call: the IdentityMap, the Parts, the accessor
\* stack, the reducers consulted, the root and the error once it is thrown.
NewFlatten(val, reducers) ==
    [indexes |-> <<>>, parts |-> <<>>, keys |-> <<>>,
     custom |-> OwnReducers(reducers), root |-> val.root, error |-> NoError]

\* flatten: depth first.  A special value is answered by its code and takes
\* no Part; a position met before yields its id (IdentityMap); a new one
\* takes the next id before the reducers are consulted and before its
\* children are visited.  A throw ends the call: nothing is visited after it.
\* A faulty has: only objects are looked up, a primitive is always new.
hasObject(F, s) == s.t = "o" /\ s \in DOMAIN F.indexes

\* indexes.has(thing)
has(F, s) == s \in DOMAIN F.indexes

RECURSIVE flattenSlot(_, _, _)
RECURSIVE flattenKids(_, _, _, _, _)
flattenSlot(F, h, s) ==
    IF F.error # NoError THEN [F |-> F, id |-> 0]
    ELSE IF s.t = "s" THEN [F |-> F, id |-> Code(s.v)]
    ELSE IF has(F, s) THEN [F |-> F, id |-> F.indexes[s]]
    ELSE LET id == Len(F.parts)
             F1 == [F EXCEPT !.indexes = @ @@ (s :> id),
                             !.parts = Append(@, PendingPart)]
             n == Reduced(F.custom, 1, h, s)
         IN  IF n < 0 THEN Throw(F1, "fn is not a function", s)
             ELSE IF n > 0
             THEN LET r == flattenSlot(F1, h, Apply(F.custom[n], h, s))
                  IN  [F |-> [r.F EXCEPT !.parts[id + 1] = TaggedPart(F.custom[n].key, r.id)],
                       id |-> id]
             ELSE IF s.t = "f" THEN Throw(F1, "Cannot stringify a function", s)
             ELSE IF s.t = "p"
             THEN [F |-> [F1 EXCEPT !.parts[id + 1] = PrimPart(s.v)], id |-> id]
             ELSE IF h[s.o].kind = "Custom"
             THEN IF h[s.o].tag = "Date"
                  THEN [F |-> [F1 EXCEPT !.parts[id + 1] = DatePart(h[s.o].kids[1].v)],
                        id |-> id]
                  ELSE Throw(F1, "Cannot stringify arbitrary non-POJOs", s)
             ELSE IF h[s.o].kind = "Object" /\ SymOf(h[s.o]) = "enumerable"
             THEN Throw(F1, "Cannot stringify POJOs with symbolic keys", s)
             ELSE LET r == flattenKids(F1, h, h[s.o], 1, <<>>)
                  IN  [F |-> [r.F EXCEPT !.parts[id + 1] = CompositePart(h[s.o], r.ids)],
                       id |-> id]

\* A faulty flattenKids: the accessor of a Map entry is never popped.
flattenKidsUnpopped(F, h, ob, i, ids) ==
    IF i > Len(ob.kids) \/ F.error # NoError THEN [F |-> F, ids |-> ids]
    ELSE IF ob.kind = "Array" /\ ob.kids[i] = Hole
    THEN flattenKids(F, h, ob, i + 1, Append(ids, HOLE))
    ELSE LET seg == Segments(ob, i)
             r == flattenSlot([F EXCEPT !.keys = @ \o seg], h, ob.kids[i])
             popped == [r.F EXCEPT !.keys = SubSeq(@, 1, Len(@) - Len(seg))]
         IN  flattenKids(IF r.F.error = NoError /\ ob.kind # "Map" THEN popped ELSE r.F,
                         h, ob, i + 1, Append(ids, r.id))

flattenKids(F, h, ob, i, ids) ==
    IF i > Len(ob.kids) \/ F.error # NoError THEN [F |-> F, ids |-> ids]
    ELSE IF ob.kind = "Array" /\ ob.kids[i] = Hole
    THEN flattenKids(F, h, ob, i + 1, Append(ids, HOLE))
    ELSE LET seg == Segments(ob, i)
             r == flattenSlot([F EXCEPT !.keys = @ \o seg], h, ob.kids[i])
             popped == [r.F EXCEPT !.keys = SubSeq(@, 1, Len(@) - Len(seg))]
         IN  flattenKids(IF r.F.error = NoError THEN popped ELSE r.F,
                         h, ob, i + 1, Append(ids, r.id))

\* The reducers of the Custom type fixture.
FooBar ==
    <<Reducer("polluted", "", "notfn", FALSE),
      Reducer("Foo", "Foo", "value", TRUE), Reducer("Bar", "Bar", "value", TRUE)>>

\* A JSON document: a number, an array of Parts, or another kind.
JsonArray(parts) == [top |-> "array", n |-> 0, parts |-> parts, error |-> NoError]
JsonNumber(n) == [top |-> "number", n |-> n, parts |-> <<>>, error |-> NoError]
JsonOther(top) == [top |-> top, n |-> 0, parts |-> <<>>, error |-> NoError]

\* stringify(value, reducers): the code alone when the root takes no Part,
\* the Parts otherwise, or the error thrown.
stringify(val, reducers) ==
    LET r == flattenSlot(NewFlatten(val, reducers), val.heap, val.root)
    IN  IF r.F.error # NoError
        THEN [top |-> "threw", n |-> 0, parts |-> <<>>, error |-> r.F.error]
        ELSE IF r.id < 0 THEN JsonNumber(r.id)
        ELSE JsonArray(r.F.parts)

flatten(val) == stringify(val, FooBar).parts

\* unflatten: hydrate(id) answers a code by its special value and from the
\* table of instances when it can; otherwise a container is allocated and
\* recorded before its children are resolved, and the inner value of a
\* custom Part is resolved before its reviver builds the instance.  built
\* counts the instances made per Part.  A throw ends the call; a tagged
\* Part whose inner value leads back to itself recurses until the stack is
\* exhausted, which throws as well (inner holds the Parts being resolved).
Instance(part, kids) ==
    [kind |-> part.t, tag |-> part.tag, keys |-> part.keys, kids |-> kids]

Built(U, id, slot) ==
    [U EXCEPT !.hydrated = @ @@ (id :> slot), !.built[id] = @ + 1]

Fail(U, message) == [U |-> [U EXCEPT !.error = message], slot |-> Prim("")]

\* A faulty Decoded: the code of negative zero read as zero.
DecodedUnsigned(id) ==
    CASE id = UNDEFINED -> Special("undefined")
      [] id = NAN -> Special("NaN")
      [] id = POSITIVE_INFINITY -> Special("Infinity")
      [] id = NEGATIVE_INFINITY -> Special("-Infinity")
      [] id = NEGATIVE_ZERO -> Prim("0")

\* The special value of a code that stands for one outside a list.
Decoded(id) ==
    CASE id = UNDEFINED -> Special("undefined")
      [] id = NAN -> Special("NaN")
      [] id = POSITIVE_INFINITY -> Special("Infinity")
      [] id = NEGATIVE_INFINITY -> Special("-Infinity")
      [] id = NEGATIVE_ZERO -> Special("-0")

\* A faulty TypeofRef: every reference is taken for a number.
TypeofRefNumber(part, i) == "number"

\* typeof of reference i of a Part as JSON.parse left it, and of a value.
TypeofRef(part, i) ==
    IF "strs" \in DOMAIN part /\ i \in part.strs THEN "string" ELSE "number"
Typeof(s) ==
    CASE s.t = "o" -> "object"
      [] s.t = "s" -> IF s.v = "undefined" THEN "undefined" ELSE "number"
      [] OTHER -> IF s.v \in {"0", "42", "1000000000"} THEN "number" ELSE "string"

TypedArrays == {"Int8Array"}

\* The message of the __proto__ guard; the message of the code has __proto__
\* between backquotes, which a string of this module cannot hold.
ProtoMessage == "Cannot parse an object with a __proto__ property"

RECURSIVE hydrate(_, _, _, _)
RECURSIVE hydrateAll(_, _, _, _, _)
hydrate(U, parts, id, standalone) ==
    IF U.error # "" THEN [U |-> U, slot |-> Prim("")]
    ELSE IF id \in {UNDEFINED, NAN, POSITIVE_INFINITY, NEGATIVE_INFINITY, NEGATIVE_ZERO}
    THEN [U |-> U, slot |-> Decoded(id)]
    ELSE IF standalone \/ id \notin 0..(Len(parts) - 1) THEN Fail(U, "Invalid input")
    ELSE IF id \in DOMAIN U.hydrated THEN [U |-> U, slot |-> U.hydrated[id]]
    ELSE LET part == parts[id + 1]
         IN  IF part.t = "prim"
             THEN [U |-> Built(U, id, Prim(part.v)), slot |-> Prim(part.v)]
             ELSE IF part.t \in {"Date", "ArrayBuffer"}
             THEN LET n == Len(U.heap) + 1
                      made == IF part.t = "Date" THEN Cust("Date", Prim(part.v))
                              ELSE Instance(part, <<Prim(part.v)>>)
                  IN  [U |-> Built([U EXCEPT !.heap = Append(@, made)], id, Obj(n)),
                       slot |-> Obj(n)]
             ELSE IF (part.t = "Custom" \/ part.t \in TypedArrays) /\ id \in U.inner
             THEN Fail(U, "Maximum call stack size exceeded")
             ELSE IF part.t = "Custom" \/ part.t \in TypedArrays
             THEN LET r == hydrateAll([U EXCEPT !.inner = @ \cup {id}], parts, part, 1, <<>>)
                      n == Len(r.U.heap) + 1
                      inner == r.slots[1]
                  IN  IF r.U.error # "" THEN [U |-> r.U, slot |-> Prim("")]
                      ELSE IF part.t \in TypedArrays
                              /\ ~(inner.t = "o" /\ r.U.heap[inner.o].kind = "ArrayBuffer")
                      THEN Fail(r.U, "Invalid input, expected ArrayBuffer but got "
                                     \o Typeof(inner))
                      ELSE [U |-> Built([r.U EXCEPT !.heap = Append(@, Instance(part, r.slots))],
                                        id, Obj(n)),
                            slot |-> Obj(n)]
             ELSE LET n == Len(U.heap) + 1
                      U1 == Built([U EXCEPT !.heap = Append(@, Instance(part, <<>>))],
                                  id, Obj(n))
                      r == hydrateAll(U1, parts, part, 1, <<>>)
                  IN  [U |-> [r.U EXCEPT !.heap[n].kids = r.slots], slot |-> Obj(n)]

\* A faulty hydrateAll: a record takes a key named __proto__ like any other.
hydrateAllUnguarded(U, parts, part, i, slots) ==
    IF i > Len(part.ids) \/ U.error # "" THEN [U |-> U, slots |-> slots]
    ELSE IF TypeofRef(part, i) # "number"
    THEN [U |-> Fail(U, "Invalid input").U, slots |-> slots]
    ELSE IF part.t = "Array" /\ part.ids[i] = HOLE
    THEN hydrateAll(U, parts, part, i + 1, Append(slots, Hole))
    ELSE LET r == hydrate(U, parts, part.ids[i], FALSE)
         IN  hydrateAll(r.U, parts, part, i + 1, Append(slots, r.slot))

\* A faulty hydrateAll: a hole of a list decoded as an undefined element.
hydrateAllDense(U, parts, part, i, slots) ==
    IF i > Len(part.ids) \/ U.error # "" THEN [U |-> U, slots |-> slots]
    ELSE IF part.t = "Array" /\ part.ids[i] = HOLE
    THEN hydrateAll(U, parts, part, i + 1, Append(slots, Special("undefined")))
    ELSE LET r == hydrate(U, parts, part.ids[i], FALSE)
         IN  hydrateAll(r.U, parts, part, i + 1, Append(slots, r.slot))

hydrateAll(U, parts, part, i, slots) ==
    IF i > Len(part.ids) \/ U.error # "" THEN [U |-> U, slots |-> slots]
    ELSE IF part.t = "Object" /\ part.keys[i] = "__proto__"
    THEN [U |-> Fail(U, ProtoMessage).U, slots |-> slots]
    ELSE IF TypeofRef(part, i) # "number"
    THEN [U |-> Fail(U, "Invalid input").U, slots |-> slots]
    ELSE IF part.t = "Array" /\ part.ids[i] = HOLE
    THEN hydrateAll(U, parts, part, i + 1, Append(slots, Hole))
    ELSE LET r == hydrate(U, parts, part.ids[i], FALSE)
         IN  hydrateAll(r.U, parts, part, i + 1, Append(slots, r.slot))

NewHydrate(parts) ==
    [hydrated |-> <<>>, heap |-> <<>>,
     built |-> [i \in 0..(Len(parts) - 1) |-> 0], inner |-> {}, error |-> ""]

\* unflatten(parsed): a number is resolved standalone, anything but a
\* non-empty array is invalid, and an error leaves no value behind.

parse(doc) ==
    LET r == IF doc.top = "number" THEN hydrate(NewHydrate(<<>>), <<>>, doc.n, TRUE)
             ELSE IF doc.top # "array" \/ doc.parts = <<>>
             THEN Fail(NewHydrate(<<>>), "Invalid input")
             ELSE hydrate(NewHydrate(doc.parts), doc.parts, 0, FALSE)
    IN  IF r.U.error # ""
        THEN [message |-> r.U.error, heap |-> <<>>, root |-> Prim(""), built |-> <<>>]
        ELSE [message |-> "", heap |-> r.U.heap, root |-> r.slot, built |-> r.U.built]

unflatten(parts) ==
    LET r == parse(JsonArray(parts))
    IN  [heap |-> r.heap, root |-> r.root, built |-> r.built]

NoDecoded == [heap |-> <<>>, root |-> Prim(""), built |-> <<>>]

\* ------------------------------------------------------------------------
\* Fixtures of the test suite: a value and the FlatTable expected for it
\* ------------------------------------------------------------------------
PArr(ids) == CompositePart(Arr(<<>>), ids)
PRec(keys, ids) == CompositePart(Rec(keys, <<>>), ids)
PMap(ids) == CompositePart(MapOf(<<>>), ids)
PSet(ids) == CompositePart(SetOf(<<>>), ids)
PCust(tag, id) == CompositePart(Cust(tag, Prim("")), <<id>>)

Fixture(name, val, json) == [name |-> name, value |-> val, json |-> json]

\* map.set('self', map): [["Map",1,0],"self"]
MapCyclical ==
    Fixture("Map (cyclical)",
            Value(<<MapOf(<<Prim("self"), Obj(1)>>)>>, Obj(1)),
            <<PMap(<<1, 0>>), PrimPart("self")>>)

\* set.add(set); set.add(42): [["Set",0,1],42]
SetCyclical ==
    Fixture("Set (cyclical)",
            Value(<<SetOf(<<Obj(1), Prim("42")>>)>>, Obj(1)),
            <<PSet(<<0, 1>>), PrimPart("42")>>)

\* arr[0] = arr: [[0]]
ArrayCyclical ==
    Fixture("Array (cyclical)",
            Value(<<Arr(<<Obj(1)>>)>>, Obj(1)),
            <<PArr(<<0>>)>>)

\* obj.self = obj: [{"self":0}]
ObjectCyclical ==
    Fixture("Object (cyclical)",
            Value(<<Rec(<<"self">>, <<Obj(1)>>)>>, Obj(1)),
            <<PRec(<<"self">>, <<0>>)>>)

\* A faulty ObjectsMutual: each record refers to itself.
ObjectsMutualApart ==
    Fixture("Object (cyclical), two records",
            Value(<<Arr(<<Obj(2), Obj(3)>>),
                    Rec(<<"second">>, <<Obj(3)>>),
                    Rec(<<"first">>, <<Obj(2)>>)>>, Obj(1)),
            <<PArr(<<1, 2>>), PRec(<<"second">>, <<1>>), PRec(<<"first">>, <<2>>)>>)

\* first.second = second; second.first = first; [first, second]:
\* [[1,2],{"second":2},{"first":1}]
ObjectsMutual ==
    Fixture("Object (cyclical), two records",
            Value(<<Arr(<<Obj(2), Obj(3)>>),
                    Rec(<<"second">>, <<Obj(3)>>),
                    Rec(<<"first">>, <<Obj(2)>>)>>, Obj(1)),
            <<PArr(<<1, 2>>), PRec(<<"second">>, <<2>>), PRec(<<"first">>, <<1>>)>>)

\* ['a string', 'a string']: [[1,1],"a string"]
StringRepetition ==
    Fixture("String (repetition)",
            Value(<<Arr(<<Prim("a string"), Prim("a string")>>)>>, Obj(1)),
            <<PArr(<<1, 1>>), PrimPart("a string")>>)

\* A faulty ObjectRepetition: the two elements as two Parts.
ObjectRepetitionTwice ==
    Fixture("Object (repetition)",
            Value(<<Arr(<<Obj(2), Obj(2)>>), Rec(<<>>, <<>>)>>, Obj(1)),
            <<PArr(<<1, 2>>), PRec(<<>>, <<>>), PRec(<<>>, <<>>)>>)

\* [object, object]: [[1,1],{}]
ObjectRepetition ==
    Fixture("Object (repetition)",
            Value(<<Arr(<<Obj(2), Obj(2)>>), Rec(<<>>, <<>>)>>, Obj(1)),
            <<PArr(<<1, 1>>), PRec(<<>>, <<>>)>>)

\* [instance, instance] with instance = new Foo({ bar: new Bar({ answer: 42 }) }):
\* [[1,1],["Foo",2],{"bar":3},["Bar",4],{"answer":5},42]
CustomType ==
    Fixture("Custom type",
            Value(<<Arr(<<Obj(2), Obj(2)>>),
                    Cust("Foo", Obj(3)),
                    Rec(<<"bar">>, <<Obj(4)>>),
                    Cust("Bar", Obj(5)),
                    Rec(<<"answer">>, <<Prim("42")>>)>>, Obj(1)),
            <<PArr(<<1, 1>>), PCust("Foo", 2), PRec(<<"bar">>, <<3>>),
              PCust("Bar", 4), PRec(<<"answer">>, <<5>>), PrimPart("42")>>)

CycleFixtures == {MapCyclical, SetCyclical, ArrayCyclical, ObjectCyclical, ObjectsMutual}
SharingFixtures == {StringRepetition, ObjectRepetition, CustomType}
Fixtures == CycleFixtures \cup SharingFixtures

\* ------------------------------------------------------------------------
\* The bounded values of the round trip
\* ------------------------------------------------------------------------
Prims == {"a", "b"}
Slots(n) == {Obj(i) : i \in 1..n} \cup {Prim(x) : x \in Prims}
Keys(n) == [i \in 1..n |-> IF i = 1 THEN "k1" ELSE "k2"]

\* The objects over n objects: a Map has as many keys as values, a custom
\* instance has one inner value.
Objects(n) ==
    LET kidss == SeqsUpTo(Slots(n), MaxKids)
    IN  {Arr(k) : k \in kidss} \cup {SetOf(k) : k \in kidss}
        \cup {Rec(Keys(Len(k)), k) : k \in kidss}
        \cup {MapOf(k) : k \in {x \in kidss : Len(x) % 2 = 0}}
        \cup {Cust("Foo", k[1]) : k \in {x \in kidss : Len(x) = 1}}

Kids(h, S) == UNION {{h[i].kids[j].o : j \in {j \in 1..Len(h[i].kids) : h[i].kids[j].t = "o"}} : i \in S}

\* The objects reached from those of S in one or more steps.
RECURSIVE ReachedFrom(_, _, _)
ReachedFrom(h, S, seen) ==
    LET new == Kids(h, S) \ seen
    IN  IF new = {} THEN seen ELSE ReachedFrom(h, new, seen \cup new)

OnCycle(h, i) == i \in ReachedFrom(h, {i}, {})
Cyclic(val) == \E i \in 1..Len(val.heap) : OnCycle(val.heap, i)

\* A reducer hands over the inner value of an instance, and the reviver
\* needs the decoded inner value to build one: no supported value has an
\* instance of a custom type inside itself.
Supported(val) ==
    \A i \in 1..Len(val.heap) :
        val.heap[i].kind = "Custom" => ~OnCycle(val.heap, i)

BoundedValues ==
    {val \in UNION {{Value(h, Obj(1)) : h \in [1..n -> Objects(n)]} : n \in 1..MaxObj} :
        Supported(val)}

InitCodec ==
    /\ cv \in BoundedValues \cup {f.value : f \in Fixtures}
    /\ ct = <<>>
    /\ cd = NoDecoded
    /\ cPc = "value"

InitIdleCodec ==
    /\ cv = NoValue
    /\ ct = <<>>
    /\ cd = NoDecoded
    /\ cPc = "idle"

\* stringify(t.value, t.reducers) of the stringify suite.
Flatten ==
    /\ cPc = "value"
    /\ ct' = flatten(cv)
    /\ cPc' = "flat"
    /\ UNCHANGED <<cv, cd, muxVars, demuxVars, callVars, streamVars>>

\* unflatten(JSON.parse(t.json), t.revivers) of the unflatten suite.
Unflatten ==
    /\ cPc = "flat"
    /\ cd' = unflatten(ct)
    /\ cPc' = "decoded"
    /\ UNCHANGED <<cv, ct, muxVars, demuxVars, callVars, streamVars>>

\* ------------------------------------------------------------------------
\* stringify and parse called on their own: special values, unsupported
\* values, reducers, and documents that no stringify wrote
\* ------------------------------------------------------------------------
MaxList == 3
MaxParts == 2
MaxReducers == 2

\* A call of stringify: the value and the reducers object.
Call(val, reducers) == [heap |-> val.heap, root |-> val.root, reducers |-> reducers]

Specials == {Special(x) : x \in {"undefined", "NaN", "Infinity", "-Infinity", "-0"}}

\* A special value alone, and lists and records of special values, zero and
\* a string; only a list has holes.
SpecialValues ==
    {Value(<<>>, s) : s \in Specials \cup {Prim("0")}}
    \cup {Value(<<Arr(k)>>, Obj(1)) :
            k \in SeqsUpTo(Specials \cup {Hole, Prim("0"), Prim("a")}, MaxList)}
    \cup {Value(<<Rec(Keys(Len(k)), k)>>, Obj(1)) :
            k \in SeqsUpTo(Specials \cup {Prim("0")}, MaxKids)}

\* Graphs with a function, an instance of an unregistered class or a
\* symbolic key somewhere.
FaultyObjects(n) ==
    LET kidss == SeqsUpTo({Obj(i) : i \in 1..n} \cup {Prim("a"), Fn}, MaxKids)
    IN  {Arr(k) : k \in kidss} \cup {SetOf(k) : k \in kidss}
        \cup {Rec(Keys(Len(k)), k) : k \in kidss}
        \cup {RecSym(Keys(Len(k)), k, sym) :
                k \in {x \in kidss : Len(x) <= 1}, sym \in {"hidden", "enumerable"}}
        \cup {MapOf(k) : k \in {x \in kidss : Len(x) = 2}}
        \cup {Cust("Whatever", Special("undefined"))}

FaultyValues ==
    UNION {{Value(h, Obj(1)) : h \in [1..n -> FaultyObjects(n)]} : n \in 1..MaxObj}

\* { foo: { array: [function invalid() {}] } }
InvalidFunction ==
    Value(<<Rec(<<"foo">>, <<Obj(2)>>), Rec(<<"array">>, <<Obj(3)>>), Arr(<<Fn>>)>>, Obj(1))

\* { foo: { 'string-key': new Map([['key', new Whatever()]]) } }
InvalidInMap ==
    Value(<<Rec(<<"foo">>, <<Obj(2)>>), Rec(<<"string-key">>, <<Obj(3)>>),
            MapOf(<<Prim("key"), Obj(4)>>), Cust("Whatever", Special("undefined"))>>, Obj(1))

\* { map: new Map([['key', 'value']]), object: { invalid() {} } }
InvalidAfterMap ==
    Value(<<Rec(<<"map", "object">>, <<Obj(2), Obj(3)>>),
            MapOf(<<Prim("key"), Prim("value")>>), Rec(<<"invalid">>, <<Fn>>)>>, Obj(1))

\* { [Symbol('key')]: 'value' }
SymbolicKey == Value(<<RecSym(<<>>, <<>>, "enumerable")>>, Obj(1))

\* { x: 1 } with a non-enumerable symbolic key: [{"x":1},1]
HiddenSymbolicKey == Value(<<RecSym(<<"x">>, <<Prim("1")>>, "hidden")>>, Obj(1))

\* [, 'b', ,]: [[-2,1,-2],"b"]
ArraySparse ==
    Fixture("Array (sparse)",
            Value(<<Arr(<<Hole, Prim("b"), Hole>>)>>, Obj(1)),
            <<PArr(<<HOLE, 1, HOLE>>), PrimPart("b")>>)

ErrorFixtures == {InvalidFunction, InvalidInMap, InvalidAfterMap, SymbolicKey, HiddenSymbolicKey}

\* new Date('invalid') with { Date: (value) => value instanceof Date && '' }
CustomFallback ==
    Call(Value(<<Cust("Date", Prim(""))>>, Obj(1)), <<Reducer("Date", "Date", "empty", TRUE)>>)

\* Reducers objects: at most MaxReducers entries under distinct keys.
ReducerEntries ==
    {Reducer(key, class, fn, own) :
        key \in {"Foo", "Bar", "Date"}, class \in {"Foo", "Date"},
        fn \in {"value", "empty"}, own \in BOOLEAN}
    \cup {Reducer("polluted", "", "notfn", FALSE)}

ReducerObjects ==
    {r \in SeqsUpTo(ReducerEntries, MaxReducers) :
        \A i, j \in 1..Len(r) : i # j => r[i].key # r[j].key}

\* Instances handed to the reducers: a Foo whose value is a record, one
\* whose value is the empty string, one whose value is undefined, a Date, an
\* instance of no registered class, and a list of two of them.
ReducedValues ==
    {Value(<<Cust("Foo", Obj(2)), Rec(<<"answer">>, <<Prim("42")>>)>>, Obj(1)),
     Value(<<Cust("Foo", Prim(""))>>, Obj(1)),
     Value(<<Cust("Foo", Special("undefined"))>>, Obj(1)),
     Value(<<Cust("Date", Prim("2001-09-09T01:46:40.000Z"))>>, Obj(1)),
     Value(<<Cust("Whatever", Special("undefined"))>>, Obj(1)),
     Value(<<Arr(<<Obj(2), Obj(3)>>), Cust("Foo", Prim("a")), Cust("Date", Prim(""))>>, Obj(1))}

Calls ==
    {Call(val, <<>>) :
        val \in SpecialValues \cup FaultyValues \cup ErrorFixtures \cup {ArraySparse.value}}
    \cup {Call(val, r) : val \in ReducedValues, r \in ReducerObjects}
    \cup {Call(CustomType.value, FooBar), CustomFallback}

\* Documents handed to parse: every kind of JSON value at the top, and
\* arrays of at most MaxParts Parts whose references may be codes, out of
\* range or no numbers at all.
Refs == (-2)..MaxParts
ProtoKeys == {"k1", "__proto__"}

\* [{"0":1,"toString":"push"},"hello"]
BadIndex ==
    <<[t |-> "Object", tag |-> "", keys |-> <<"0", "toString">>, ids |-> <<1, 0>>,
       v |-> "", strs |-> {2}],
      PrimPart("hello")>>

\* [["Int8Array", 1], { "length": 2 }, 1000000000]
NonArrayBuffer ==
    <<[t |-> "Int8Array", tag |-> "", keys |-> <<>>, ids |-> <<1>>, v |-> ""],
      PRec(<<"length">>, <<2>>), PrimPart("1000000000")>>

\* [{"__proto__":1},{}]
PrototypePollution == <<PRec(<<"__proto__">>, <<1>>), PRec(<<>>, <<>>)>>

BoundedParts ==
    LET idss == SeqsUpTo(Refs, MaxKids)
    IN  {PArr(ids) : ids \in idss}
        \cup UNION {{PRec(keys, ids) : ids \in {x \in idss : Len(x) = Len(keys)}} :
                        keys \in SeqsUpTo(ProtoKeys, MaxKids)}
        \cup {[t |-> "Object", tag |-> "", keys |-> <<"k1">>, ids |-> <<0>>,
               v |-> "", strs |-> {1}]}
        \cup {[t |-> "Int8Array", tag |-> "", keys |-> <<>>, ids |-> <<i>>, v |-> ""] :
                i \in Refs}
        \cup {[t |-> "ArrayBuffer", tag |-> "", keys |-> <<>>, ids |-> <<>>, v |-> "AQID"]}
        \cup {PrimPart("a")}

Documents ==
    {JsonOther(top) : top \in {"string", "boolean", "null", "object"}}
    \cup {JsonNumber(n) : n \in (-7)..1 \cup {42}}
    \cup {JsonArray(parts) : parts \in SeqsUpTo(BoundedParts, MaxParts)}
    \cup {JsonArray(BadIndex), JsonArray(NonArrayBuffer), JsonArray(PrototypePollution)}

InitDocs ==
    \/ /\ cv \in Calls
       /\ ct = JsonOther("none")
       /\ cd = NoDecoded
       /\ cPc = "call"
    \/ /\ cv = NoValue
       /\ ct \in Documents
       /\ cd = NoDecoded
       /\ cPc = "json"

\* stringify(value, reducers): the document, or the error it throws.
Stringify ==
    /\ cPc = "call"
    /\ ct' = stringify(cv, cv.reducers)
    /\ cPc' = IF ct'.top = "threw" THEN "threw" ELSE "json"
    /\ UNCHANGED <<cv, cd, muxVars, demuxVars, callVars, streamVars>>

\* parse(json): the value, or the error it throws.
Parse ==
    /\ cPc = "json"
    /\ cd' = parse(ct)
    /\ cPc' = IF cd'.message = "" THEN "parsed" ELSE "invalid"
    /\ UNCHANGED <<cv, ct, muxVars, demuxVars, callVars, streamVars>>

\* ------------------------------------------------------------------------
\* The byte <-> text codec of buffers (z85.js)
\* ------------------------------------------------------------------------
MaxBytes == 5

\* The alphabet, each character by its character code ("0" is 48, "#" is
\* 35); ENCODE[i + 1] is the character of digit i.
ENCODE ==
    <<
      48, 49, 50, 51, 52, 53, 54, 55, 56, 57, 97, 98, 99, 100, 101, 102, 103,
      104, 105, 106, 107, 108, 109, 110, 111, 112, 113, 114, 115, 116, 117,
      118, 119, 120, 121, 122, 65, 66, 67, 68, 69, 70, 71, 72, 73, 74, 75,
      76, 77, 78, 79, 80, 81, 82, 83, 84, 85, 86, 87, 88, 89, 90, 46, 45, 58,
      43, 61, 94, 33, 47, 42, 63, 38, 60, 62, 40, 41, 91, 93, 123, 125, 64,
      37, 36, 35
    >>

\* DECODE[c - 32 + 1] is the digit of the character of code c, -1 for a
\* character outside the alphabet.
DECODE ==
    <<
      -1, 68, -1, 84, 83, 82, 72, -1, 75, 76, 70, 65, -1, 63, 62, 69, 0, 1,
      2, 3, 4, 5, 6, 7, 8, 9, 64, -1, 73, 66, 74, 71, 81, 36, 37, 38, 39, 40,
      41, 42, 43, 44, 45, 46, 47, 48, 49, 50, 51, 52, 53, 54, 55, 56, 57, 58,
      59, 60, 61, 77, -1, 78, 67, -1, -1, 10, 11, 12, 13, 14, 15, 16, 17, 18,
      19, 20, 21, 22, 23, 24, 25, 26, 27, 28, 29, 30, 31, 32, 33, 34, 35, 79,
      -1, 80, -1, -1
    >>

POW_85 == <<1, 85, 7225, 614125, 52200625>>
POW_256 == <<1, 256, 65536, 16777216>>

\* value of both loops reaches 2^32 - 1 and 85^5 - 1, which a number of the
\* code holds exactly and an integer of TLC does not: it is kept as the
\* sequence of its digits, most significant first (bytes in encode85, digits
\* to the base 85 in decode85), so that value * base + x appends a digit.
\* LongDiv divides such a number by d, digit by digit.
RECURSIVE LongDiv(_, _, _, _, _)
LongDiv(digits, base, d, r, q) ==
    IF digits = <<>> THEN [q |-> q, r |-> r]
    ELSE LongDiv(Tail(digits), base, d, (r * base + Head(digits)) % d,
                 Append(q, (r * base + Head(digits)) \div d))

\* Math.floor(value / pow[j]) % d for a table pow of the powers of d.
RECURSIVE FloorMod(_, _, _, _)
FloorMod(digits, base, d, j) ==
    LET r == LongDiv(digits, base, d, 0, <<>>)
    IN  IF j = 0 THEN r.r ELSE FloorMod(r.q, base, d, j - 1)

\* The loop of encode85 from index i on: value collects four bytes, zeros
\* standing for the padding; a full group gives five characters, the last
\* group of a padded input gives 5 - padding characters.
RECURSIVE encodeLoop(_, _, _, _)
encodeLoop(u8a, i, val, result) ==
    LET length == Len(u8a)
        padding == (4 - (length % 4)) % 4
        isPadding == i >= length
        v == Append(val, IF isPadding THEN 0 ELSE u8a[i + 1])
    IN  IF i >= length + padding THEN result
        ELSE IF (i + 1) % 4 # 0 THEN encodeLoop(u8a, i + 1, v, result)
        ELSE IF ~isPadding
        THEN encodeLoop(u8a, i + 1, <<>>,
                        result \o <<ENCODE[FloorMod(v, 256, 85, 4) + 1],
                                    ENCODE[FloorMod(v, 256, 85, 3) + 1],
                                    ENCODE[FloorMod(v, 256, 85, 2) + 1],
                                    ENCODE[FloorMod(v, 256, 85, 1) + 1],
                                    ENCODE[FloorMod(v, 256, 85, 0) + 1]>>)
        ELSE encodeLoop(u8a, i + 1, <<>>,
                        result \o [k \in 1..(5 - padding) |->
                                      ENCODE[FloorMod(v, 256, 85, (5 - k + 1) - 1) + 1]])

encode85(data) == encodeLoop(data, 0, <<>>, <<>>)

\* The loop of decode85 from index i on; a write beyond the end of the
\* buffer leaves the buffer as it is.
RECURSIVE decodeLoop(_, _, _, _, _)
decodeLoop(string, size, i, val, buffer85) ==
    IF i >= Len(string) THEN buffer85
    ELSE LET v == Append(val, DECODE[string[i + 1] - 32 + 1])
             bytes == [k \in 1..4 |-> FloorMod(v, 85, 256, 4 - k)]
             room == size - Len(buffer85)
         IN  IF (i + 1) % 5 # 0 THEN decodeLoop(string, size, i + 1, v, buffer85)
             ELSE decodeLoop(string, size, i + 1, <<>>,
                             buffer85 \o SubSeq(bytes, 1, IF room < 4 THEN room ELSE 4))

\* A faulty decode85: the text is padded with the first character of the
\* alphabet.
decode85ZeroPadded(string) ==
    LET remainder == Len(string) % 5
        padding == 5 - (IF remainder = 0 THEN 5 ELSE remainder)
        padded == string \o [k \in 1..padding |-> ENCODE[1]]
    IN  decodeLoop(padded, (Len(padded) * 4) \div 5 - padding, 0, <<>>, <<>>)

decode85(string) ==
    LET remainder == Len(string) % 5
        padding == 5 - (IF remainder = 0 THEN 5 ELSE remainder)
        padded == string \o [k \in 1..padding |-> ENCODE[Len(ENCODE)]]
    IN  decodeLoop(padded, (Len(padded) * 4) \div 5 - padding, 0, <<>>, <<>>)

\* The byte sequences encoded: every length up to MaxBytes over the least
\* and the greatest byte and three in between.
ByteValues == {0, 1, 127, 128, 255}
ByteSequences == SeqsUpTo(ByteValues, MaxBytes)

InitZ85 ==
    /\ cv \in ByteSequences
    /\ ct = <<>>
    /\ cd = <<>>
    /\ cPc = "bytes"

Encode85 ==
    /\ cPc = "bytes"
    /\ ct' = encode85(cv)
    /\ cPc' = "text"
    /\ UNCHANGED <<cv, cd, muxVars, demuxVars, callVars, streamVars>>

Decode85 ==
    /\ cPc = "text"
    /\ cd' = decode85(ct)
    /\ cPc' = "binary"
    /\ UNCHANGED <<cv, ct, muxVars, demuxVars, callVars, streamVars>>

\* ------------------------------------------------------------------------
\* Several calls of stringifyAsync
\* ------------------------------------------------------------------------
MaxCalls == 2

\* The locals of a call whose body has not run: an async generator function
\* runs nothing before the first next().
Idle ==
    [sPc |-> "start", counter |-> 0, out |-> <<>>,
     pendingIterables |-> <<>>, activeIterators |-> <<>>,
     running |-> FALSE, frozen |-> FALSE, mPc |-> "init", mCur |-> 0,
     closing |-> {}, mErr |-> FALSE, kind |-> [c \in Chan |-> "none"],
     st |-> [c \in Chan |-> "new"], item |-> [c \in Chan |-> NoChunk],
     retq |-> [c \in Chan |-> FALSE], returns |-> [c \in Chan |-> 0],
     threw |-> FALSE]

\* A faulty NewCall: the counter is shared by all calls and goes on from the
\* largest id given out so far.
NewCallShared(cs) ==
    LET ns == {cs[k].counter : k \in 1..MaxCalls}
    IN  [Idle EXCEPT !.counter = CHOOSE n \in ns : \A m \in ns : m <= n]

\* Lines 119-122: the counter and the merge of a call are created by the
\* call, whatever other calls cs there are.
NewCall(cs) == Idle

\* The value registerAsync returns (line 142).
IdxOf(S, k) == registerAsync(S, k).counter

\* The ids the reducers return while stringify walks the sources ks.
RECURSIVE Indices(_, _)
Indices(S, ks) ==
    IF ks = <<>> THEN <<>>
    ELSE <<IdxOf(S, Head(ks))>> \o Indices(registerAsync(S, Head(ks)), Tail(ks))

InitIdleCalls ==
    /\ calls = [k \in 1..MaxCalls |-> Idle]
    /\ assigned = <<>>

\* The first next() of call k: lines 119-206, the head of a value with the
\* sources ks.
CallStart(k) ==
    /\ calls[k].sPc = "start"
    /\ \E ks \in SeqsUpTo(Kinds, MaxHead) :
       \E S0 \in {NewCall(calls)} :
          /\ calls' = [calls EXCEPT ![k] = [registerAll(S0, ks) EXCEPT !.sPc = "head"]]
          /\ assigned' = assigned \o [i \in 1..Len(ks) |->
                                          [call |-> k, idx |-> Indices(S0, ks)[i]]]
    /\ UNCHANGED <<muxVars, demuxVars, codecVars, streamVars>>

\* The second next() of call k: the merge starts (lines 71-78).
CallMerge(k) ==
    /\ calls[k].sPc = "head"
    /\ calls' = [calls EXCEPT ![k] = [StartAll(calls[k]) EXCEPT !.sPc = "pull"]]
    /\ UNCHANGED <<assigned, muxVars, demuxVars, codecVars, streamVars>>

\* A source of call k hands over a value that holds one more source.
CallRegister(k) ==
    /\ calls[k].sPc = "pull"
    /\ calls[k].counter < MaxCh
    /\ \E nest \in Kinds :
          /\ calls' = [calls EXCEPT ![k] = registerAsync(calls[k], nest)]
          /\ assigned' = Append(assigned, [call |-> k, idx |-> IdxOf(calls[k], nest)])
    /\ UNCHANGED <<muxVars, demuxVars, codecVars, streamVars>>

NextCalls ==
    \/ \E k \in 1..MaxCalls : CallStart(k)
    \/ \E k \in 1..MaxCalls : CallMerge(k)
    \/ \E k \in 1..MaxCalls : CallRegister(k)

\* ------------------------------------------------------------------------
\* readableStreamFrom (lines 370-389) and asyncIterableFrom (lines 398-415)
\* ------------------------------------------------------------------------
MaxItems == 2
MaxCancels == 2

\* new ReadableStream(source) at line 373 is given no queuing strategy: the
\* stream asks for a chunk while fewer than one is queued.
HighWaterMark == 1

\* What a read() or an iterator's next() settles with.
Res(t, v) == [t |-> t, v |-> v]

\* it: an async iterator with n items that ends by reporting done or by
\* throwing; a generator, so that a return() during a step waits for it.
\* rs: the ReadableStream and its controller.  aif: the generator of
\* asyncIterableFrom, "absent" when the stream is read through a reader of
\* the caller's own, whose results are in taken; ret: the consumer has called
\* return() on it.
NewPipe(n, e, m) ==
    [it |-> [n |-> n, end |-> e, pc |-> "idle", fin |-> FALSE, sent |-> 0,
             nexts |-> 0, returns |-> 0, retq |-> FALSE, served |-> FALSE],
     rs |-> [state |-> "readable", queue |-> <<>>, started |-> FALSE,
             pulling |-> FALSE, settled |-> FALSE, pullAgain |-> FALSE,
             closeRequested |-> FALSE, locked |-> (m = "absent"), reads |-> 0,
             pulls |-> 0, cancels |-> 0, calls |-> 0],
     aif |-> [pc |-> m, got |-> <<>>, ret |-> FALSE, retq |-> FALSE, released |-> FALSE],
     taken |-> <<>>]

\* iterator.next() (line 379).
itNext(P) == [P EXCEPT !.it.nexts = @ + 1, !.it.pc = "busy"]

\* iterator.return?.() (line 375): served at once by a generator that is
\* suspended, queued behind the step of one that is running.  served: the
\* generator was closed at a yield, so that its finally blocks ran.
itReturn(P) ==
    IF P.it.pc = "busy"
    THEN [P EXCEPT !.it.returns = @ + 1, !.it.retq = TRUE]
    ELSE [P EXCEPT !.it.returns = @ + 1, !.it.fin = TRUE,
                   !.it.served = @ \/ (P.it.nexts > 0 /\ ~P.it.fin)]

\* The finally block of asyncIterableFrom (lines 410-413): the lock is
\* released, then cancel() is called on the released reader, which rejects
\* with a TypeError without cancelling the stream; the await throws it.
Finalize(P) ==
    [P EXCEPT !.rs.locked = FALSE, !.aif.released = TRUE, !.aif.pc = "threw"]

\* The generator of asyncIterableFrom resumes with the result of the read
\* (lines 403-409); a return() queued behind the step closes it at the yield.
AifResume(P, r) ==
    IF r.t = "item"
    THEN LET P1 == [P EXCEPT !.aif.got = Append(@, r.v), !.aif.pc = "yield"]
         IN  IF P.aif.retq THEN Finalize(P1) ELSE P1
    ELSE Finalize(P)

\* The reader is handed the result of a read.
Deliver(P, r) ==
    IF P.aif.pc = "absent" THEN [P EXCEPT !.taken = Append(@, r)]
    ELSE AifResume(P, r)

CanCloseOrEnqueue(R) == R.state = "readable" /\ ~R.closeRequested

ShouldCallPull(R) ==
    /\ CanCloseOrEnqueue(R)
    /\ R.started
    /\ (R.locked /\ R.reads > 0) \/ Len(R.queue) < HighWaterMark

\* pull(controller) up to its await (lines 378-379).
pull(P) == itNext(P)

\* The stream calls pull unless a call is under way.
CallPullIfNeeded(P) ==
    IF ~ShouldCallPull(P.rs) THEN P
    ELSE IF P.rs.pulling THEN [P EXCEPT !.rs.pullAgain = TRUE]
    ELSE pull([P EXCEPT !.rs.pulling = TRUE, !.rs.pulls = @ + 1])

\* The stream becomes closed or errored; a read that waits is settled.
StreamEnds(P, state) ==
    LET P1 == [P EXCEPT !.rs.state = state, !.rs.queue = <<>>, !.rs.reads = 0]
    IN  IF P.rs.reads > 0
        THEN Deliver(P1, Res(IF state = "closed" THEN "done" ELSE "error", 0))
        ELSE P1

\* pull rejected: the controller errors a stream that is still readable.
ControllerError(P) ==
    IF P.rs.state # "readable" THEN P ELSE StreamEnds(P, "errored")

\* controller.close() (line 382).
ControllerClose(P) ==
    LET P1 == [P EXCEPT !.rs.closeRequested = TRUE]
    IN  IF P.rs.queue = <<>> THEN StreamEnds(P1, "closed") ELSE P1

\* controller.enqueue(result.value) (line 386).
ControllerEnqueue(P, r) ==
    IF P.rs.locked /\ P.rs.reads > 0
    THEN Deliver(CallPullIfNeeded([P EXCEPT !.rs.reads = @ - 1]), r)
    ELSE CallPullIfNeeded([P EXCEPT !.rs.queue = Append(@, r.v)])

\* pull(controller) from its await on (lines 379-386), with the result r of
\* iterator.next().  close() and enqueue() throw on a stream that is not
\* readable any more, which rejects the promise of pull as a rejected
\* next() does.
PullResume(P, r) ==
    IF r.t = "error" \/ ~CanCloseOrEnqueue(P.rs) THEN ControllerError(P)
    ELSE IF r.t = "done" THEN [ControllerClose(P) EXCEPT !.rs.settled = TRUE]
    ELSE [ControllerEnqueue(P, r) EXCEPT !.rs.settled = TRUE]

\* reader.read() (line 403).
Read(P) ==
    IF P.rs.state = "closed" THEN Deliver(P, Res("done", 0))
    ELSE IF P.rs.state = "errored" THEN Deliver(P, Res("error", 0))
    ELSE IF P.rs.queue # <<>>
    THEN LET P1 == [P EXCEPT !.rs.queue = Tail(@)]
             P2 == IF P.rs.closeRequested /\ Tail(P.rs.queue) = <<>>
                   THEN StreamEnds(P1, "closed")
                   ELSE CallPullIfNeeded(P1)
         IN  Deliver(P2, Res("item", Head(P.rs.queue)))
    ELSE CallPullIfNeeded([P EXCEPT !.rs.reads = 1])

\* A faulty cancel: the iterator is left alone.
StreamCancelSilent(P) ==
    IF P.rs.state # "readable" THEN P
    ELSE [StreamEnds(P, "closed") EXCEPT !.rs.cancels = @ + 1]

\* Cancelling the stream: a readable stream is closed and its source's
\* cancel() is called (lines 374-376); a stream that is closed or errored
\* is left as it is.
StreamCancel(P) ==
    IF P.rs.state # "readable" THEN P
    ELSE itReturn([StreamEnds(P, "closed") EXCEPT !.rs.cancels = @ + 1])

Pipes ==
    {NewPipe(n, e, m) : n \in 0..MaxItems, e \in {"done", "throws"},
                        m \in {"absent", "unstarted"}}

InitStreams == pipe \in Pipes

InitIdleStreams == pipe = NewPipe(0, "done", "absent")

\* The start of the stream's source has settled.
StreamStart ==
    /\ ~pipe.rs.started
    /\ pipe' = CallPullIfNeeded([pipe EXCEPT !.rs.started = TRUE])
    /\ UNCHANGED <<muxVars, demuxVars, codecVars, callVars>>

\* The step of the iterator settles: with its next item, done, or a throw;
\* a return() that waited is served; pull goes on after its await.
ItSettles ==
    /\ pipe.it.pc = "busy"
    /\ LET it == pipe.it
           r == IF it.fin THEN Res("done", 0)
                ELSE IF it.sent < it.n THEN Res("item", it.sent + 1)
                ELSE Res(IF it.end = "done" THEN "done" ELSE "error", 0)
           P1 == [pipe EXCEPT
                     !.it.pc = "idle",
                     !.it.sent = IF r.t = "item" THEN @ + 1 ELSE @,
                     !.it.fin = @ \/ r.t # "item" \/ it.retq,
                     !.it.served = @ \/ (it.retq /\ r.t = "item"),
                     !.it.retq = FALSE]
       IN  pipe' = PullResume(P1, r)
    /\ UNCHANGED <<muxVars, demuxVars, codecVars, callVars>>

\* The promise of pull has been fulfilled.
PullSettled ==
    /\ pipe.rs.settled
    /\ LET P1 == [pipe EXCEPT !.rs.pulling = FALSE, !.rs.settled = FALSE,
                              !.rs.pullAgain = FALSE]
       IN  pipe' = IF pipe.rs.pullAgain THEN CallPullIfNeeded(P1) ELSE P1
    /\ UNCHANGED <<muxVars, demuxVars, codecVars, callVars>>

\* The caller's reader asks for the next chunk.
ReaderRead ==
    /\ pipe.aif.pc = "absent"
    /\ pipe.rs.reads = 0
    /\ Len(pipe.taken) <= MaxItems + 1
    /\ pipe' = Read(pipe)
    /\ UNCHANGED <<muxVars, demuxVars, codecVars, callVars>>

\* The caller cancels the stream through its reader.
ReaderCancel ==
    /\ pipe.aif.pc = "absent"
    /\ pipe.rs.calls < MaxCancels
    /\ pipe' = StreamCancel([pipe EXCEPT !.rs.calls = @ + 1])
    /\ UNCHANGED <<muxVars, demuxVars, codecVars, callVars>>

\* next() on asyncIterableFrom(stream): the first one takes the reader
\* (line 399); each runs the loop up to its read (line 403).
AifNext ==
    /\ pipe.aif.pc \in {"unstarted", "yield"}
    /\ pipe' = Read([pipe EXCEPT !.rs.locked = TRUE, !.aif.pc = "reading"])
    /\ UNCHANGED <<muxVars, demuxVars, codecVars, callVars>>

\* return() on asyncIterableFrom(stream): before the first next() the body
\* never runs; at the yield the finally block runs; during a read the
\* request waits.
AifReturn ==
    /\ \/ pipe.aif.pc \in {"unstarted", "yield"}
       \/ pipe.aif.pc = "reading" /\ ~pipe.aif.retq
    /\ \E P \in {[pipe EXCEPT !.aif.ret = TRUE]} :
          pipe' = IF P.aif.pc = "unstarted" THEN [P EXCEPT !.aif.pc = "done"]
                  ELSE IF P.aif.pc = "yield" THEN Finalize(P)
                  ELSE [P EXCEPT !.aif.retq = TRUE]
    /\ UNCHANGED <<muxVars, demuxVars, codecVars, callVars>>

\* ------------------------------------------------------------------------
\* Specifications
\* ------------------------------------------------------------------------
\* stringifyAsync with its sources and its consumer.
NextMux ==
    \/ StartHead
    \/ StartMerge
    \/ ResumeMerge
    \/ \E c \in Chan : SourceStep(c)
    \/ ConsumerReturn

InitSpecMux ==
    /\ InitMux
    /\ InitDemux
    /\ InitIdleCodec
    /\ InitIdleCalls
    /\ InitIdleStreams

SpecMux == InitSpecMux /\ [][NextMux]_vars

\* parseAsync with its transport and its consumers.
InitIdleMux ==
    /\ InitMux
    /\ value = <<>>
    /\ coerceError = "none"

NextDemux ==
    \/ EnvHead
    \/ EnvChunk
    \/ EnvBad
    \/ EnvEnd
    \/ ReadHead
    \/ PumpLine
    \/ PumpEnd
    \/ PumpFail
    \/ \E c \in Chan : Wake(c)
    \/ \E c \in Chan : UserNext(c)
    \/ \E c \in Chan : UserReturn(c)

InitSpecDemux ==
    /\ InitIdleMux
    /\ InitDemux
    /\ InitIdleCodec
    /\ InitIdleCalls
    /\ InitIdleStreams

SpecDemux == InitSpecDemux /\ [][NextDemux]_vars

\* parseAsync read by consumers that keep iterating what they decoded, on
\* a transport whose lines have numeric ids, with an event loop that runs
\* every continuation that is ready.
NextIterate ==
    \/ EnvHead
    \/ EnvChunk
    \/ EnvEnd
    \/ ReadHead
    \/ PumpLine
    \/ PumpEnd
    \/ PumpFail
    \/ \E c \in Chan : Wake(c)
    \/ \E c \in Chan : UserNext(c)

ConsumerProgress ==
    \/ \E c \in Chan : Wake(c)
    \/ \E c \in Chan : UserNext(c)

SpecIterate == InitSpecDemux /\ [][NextIterate]_vars /\ WF_vars(ConsumerProgress)

\* stringify followed by unflatten, on the bounded values and the fixtures.
NextCodec ==
    \/ Flatten
    \/ Unflatten

InitSpecCodec ==
    /\ InitIdleMux
    /\ InitDemux
    /\ InitCodec
    /\ InitIdleCalls
    /\ InitIdleStreams

SpecCodec == InitSpecCodec /\ [][NextCodec]_vars

\* Calls of stringifyAsync running side by side.
InitSpecCalls ==
    /\ InitIdleMux
    /\ InitDemux
    /\ InitIdleCodec
    /\ InitIdleCalls
    /\ InitIdleStreams

SpecCalls == InitSpecCalls /\ [][NextCalls]_vars

\* stringify and parse on their own.
NextDocs ==
    \/ Stringify
    \/ Parse

InitSpecDocs ==
    /\ InitIdleMux
    /\ InitDemux
    /\ InitDocs
    /\ InitIdleCalls
    /\ InitIdleStreams

SpecDocs == InitSpecDocs /\ [][NextDocs]_vars

\* encode85 followed by decode85.
NextZ85 ==
    \/ Encode85
    \/ Decode85

InitSpecZ85 ==
    /\ InitIdleMux
    /\ InitDemux
    /\ InitZ85
    /\ InitIdleCalls
    /\ InitIdleStreams

SpecZ85 == InitSpecZ85 /\ [][NextZ85]_vars

\* readableStreamFrom(it) read by a reader of the caller's own, or through
\* asyncIterableFrom.
NextStreams ==
    \/ StreamStart
    \/ ItSettles
    \/ PullSettled
    \/ ReaderRead
    \/ ReaderCancel
    \/ AifNext
    \/ AifReturn

InitSpecStreams ==
    /\ InitIdleMux
    /\ InitDemux
    /\ InitIdleCodec
    /\ InitIdleCalls
    /\ InitStreams

SpecStreams == InitSpecStreams /\ [][NextStreams]_vars

\* ------------------------------------------------------------------------
\* stringifyAsync connected to parseAsync: the transport is the consumer of
\* stringifyAsync (readableStreamFrom, lines 370-389) and hands every line
\* on (a reader of the stream, or asyncIterableFrom, lines 398-415).
\* ------------------------------------------------------------------------
\* controller.enqueue(result.value), line 386, read at line 403-409.
Transmit ==
    /\ wireEnd = "open"
    /\ Len(wire) < Len(out)
    /\ wire' = Append(wire, out[Len(wire) + 1])
    /\ UNCHANGED <<wireEnd, rxVars, besideDemux>>

\* The output is over: controller.close() (lines 381-383) when it is done,
\* an errored stream when next() rejected (line 379).  A closed stream read
\* with a reader reports done; read through asyncIterableFrom its last
\* next() rejects (lines 410-413).
TransmitEnd ==
    /\ wireEnd = "open"
    /\ wire = out
    /\ sPc \in {"done", "failed"}
    /\ wireEnd' \in IF sPc = "done" THEN {"closed", "error"} ELSE {"error"}
    /\ UNCHANGED <<wire, rxVars, besideDemux>>

\* The value { p: P }: one pending-single at the top level.  Values the
\* sources produce later may hold further sources of either kind.  The
\* consumer awaits the futures it decodes and leaves decoded sequences
\* alone (their consumers are part of SpecDemux).
InitE2E ==
    /\ InitMux
    /\ value = <<"P">>
    /\ InitDemux
    /\ InitIdleCodec
    /\ InitIdleCalls
    /\ InitIdleStreams

NextE2E ==
    \/ StartHead
    \/ StartMerge
    \/ ResumeMerge
    \/ \E c \in Chan : SourceStep(c)
    \/ Transmit
    \/ TransmitEnd
    \/ ReadHead
    \/ PumpLine
    \/ PumpEnd
    \/ PumpFail
    \/ \E c \in Chan : Wake(c)

\* Every source eventually completes its step, the transport keeps pulling,
\* and the event loop runs every continuation that is ready.  No step of the system can be undone, so one condition on their disjunction
\* is as strong as one condition for each.
ProgressE2E ==
    \/ Transmit
    \/ TransmitEnd
    \/ ReadHead
    \/ PumpLine
    \/ PumpEnd
    \/ PumpFail
    \/ \E c \in Chan : Wake(c)
    \/ StartHead
    \/ StartMerge
    \/ ResumeMerge
    \/ \E c \in Chan : SourceStep(c)

FairE2E == WF_vars(ProgressE2E)

SpecE2E == InitE2E /\ [][NextE2E]_vars /\ FairE2E

\* ------------------------------------------------------------------------
\* Properties of the multiplexer
\* ------------------------------------------------------------------------
IsPrefix(a, b) == Len(a) <= Len(b) /\ SubSeq(b, 1, Len(a)) = a

\* The chunk lines of the output (all but the head).
ChunkLines == IF out = <<>> THEN <<>> ELSE Tail(out)

Registered == {c \in Chan : kind[c] # "none"}

\* C4: the first line is the head, with every pending source of the value
\* replaced by its channel id; it is there after the first pull although no
\* source has completed a step, and no chunk line precedes it.
C4_HeadFirst ==
    /\ out # <<>> =>
          /\ out[1].ch = 0
          /\ out[1].refs = Placeholders(0, value)
          /\ \A i \in 2..Len(out) : out[i].ch \in Chan
    /\ sPc = "head" => Len(out) = 1 /\ produced = <<>>
    /\ produced # <<>> => out # <<>>

C4_Witness ==
    /\ sPc = "head"
    /\ Len(value) = MaxHead
    /\ out = <<Line(0, Chunk(0, V("head", 0), Placeholders(0, value)))>>
    /\ \A c \in Registered : st[c] = "new"

\* C5: the lines of a channel are its source's steps, in order, none lost and
\* none twice, and a channel has at most one entry in the active set.
C5_ChannelOrder ==
    \A c \in Chan :
        /\ IsPrefix(Filter(ChunkLines, c), Filter(produced, c))
        /\ Len(Filter(produced, c)) <= Len(Filter(ChunkLines, c)) + 1
        /\ Len(Filter([i \in 1..Len(activeIterators) |-> [ch |-> activeIterators[i]]], c)) <= 1
        /\ (mCur = c => c \notin SeqToSet(activeIterators))

C5_Witness ==
    \E i, j, k \in 1..Len(out) :
        /\ i < j /\ j < k
        /\ out[i].ch # 0
        /\ out[i].ch = out[k].ch
        /\ out[j].ch # 0
        /\ out[j].ch # out[i].ch

\* C6: the chunk lines appear in the order in which the steps completed.
C6_ReadinessOrder == IsPrefix(ChunkLines, produced)

\* C9: when the abandonment has completed, every registered sequence that has
\* not emitted its terminal chunk had its return() invoked exactly once.  It
\* is stated for the sequences whose iterator stringifyAsync has obtained
\* (line 169); one that is abandoned before the merge started has none.
Terminal(l) ==
    l.st \in {ASYNC_ITERABLE_STATUS_ERROR, ASYNC_ITERABLE_STATUS_RETURN}
EmittedTerminal(c) ==
    \E i \in 1..Len(ChunkLines) : ChunkLines[i].ch = c /\ Terminal(ChunkLines[i])
C9_CleanupOnce ==
    sPc = "returned" =>
        \A c \in Registered :
            kind[c] = "I" /\ st[c] # "new" /\ ~EmittedTerminal(c) => returns[c] = 1

\* C10: a failure of one source is isolated to its channel: the channel emits
\* one terminal chunk with status rejected/error, the output does not fail,
\* and every channel emits all of its chunks.
LinesOf(c) == Filter(ChunkLines, c)
IsErrorLine(l) == l.st = PROMISE_STATUS_REJECTED /\ l.val.tag \in {"cause", "coerced"}
EndsWithError(c) ==
    /\ LinesOf(c) # <<>>
    /\ IsErrorLine(LinesOf(c)[Len(LinesOf(c))])
    /\ \A i \in 1..(Len(LinesOf(c)) - 1) : ~IsErrorLine(LinesOf(c)[i])
AllEmitted ==
    \A c \in Registered :
        /\ LinesOf(c) = Filter(produced, c)
        /\ LinesOf(c) # <<>>
        /\ c \notin SeqToSet(activeIterators)
RECURSIVE Chunks(_)
\* The chunks among buffered items: the Errors of the pump are no chunks.
Chunks(s) ==
    IF s = <<>> THEN <<>>
    ELSE IF Head(s).err THEN Chunks(Tail(s))
    ELSE <<Head(s)>> \o Chunks(Tail(s))

\* What the consumer of channel c has observed or will observe, in order.
Delivered(c) == Chunks(got[c] \o buffer[c])

\* C7: for every decoded placeholder whose consumer has not dropped it, the
\* chunks the consumer has taken, followed by those waiting in its buffer,
\* are exactly the chunks the pump read for the channel, in arrival order:
\* none lost, none duplicated, also when the pump ran before the consumer's
\* first iteration step.
C7_InOrderNoLoss ==
    \A c \in Chan :
        phKind[c] # "none" /\ uPc[c] # "dropped" => Delivered(c) = arrived[c]

\* C8: once the transport has ended and the pump has seen it end, no
\* consumer of a channel without terminal chunk is suspended with nothing
\* left to wake it: a waiting consumer has an item in its buffer or a
\* resolved deferred (the stream-interrupted error on its way).
C8_NoStall ==
    \A c \in Chan :
        pPc = "ended" /\ uPc[c] = "waiting" =>
            deferred[c] \/ buffer[c] # <<>>

\* ------------------------------------------------------------------------
\* Claims about stringifyAsync connected to parseAsync
\* ------------------------------------------------------------------------
Promises == {c \in Chan : kind[c] = "P"}
Resolved == {"fulfilled", "rejected"}

\* What holds of the pending-single channels in every state.
C3_Always ==
    /\ out # <<>> => out[1] = Line(0, Chunk(0, V("head", 0), {Ref(1, "P")}))
    /\ \A c \in Promises :
        /\ Len(LinesOf(c)) <= 1
        /\ \A i \in 1..Len(LinesOf(c)) :
              LinesOf(c)[i].st \in {PROMISE_STATUS_FULFILLED, PROMISE_STATUS_REJECTED}
        /\ sPc = "done" => Len(LinesOf(c)) = 1 /\ st[c] = "done"
        /\ uPc[c] \in Resolved =>
              /\ LinesOf(c) # <<>>
              /\ got[c] = <<Item(LinesOf(c)[1])>>
              /\ uPc[c] = "fulfilled" <=>
                    /\ LinesOf(c)[1].st = PROMISE_STATUS_FULFILLED
                    /\ LinesOf(c)[1].val = V("value", 0)
              /\ c \notin enqueueMap
        /\ uPc[c] # "unknown"

RECURSIVE Related(_, _, _, _)
Related(a, b, done, todo) ==
    IF todo = {} THEN done
    ELSE LET pr == CHOOSE x \in todo : TRUE
             x == pr[1]
             y == pr[2]
             next == IF x.t = "o" /\ y.t = "o"
                        /\ Len(a.heap[x.o].kids) = Len(b.heap[y.o].kids)
                     THEN {<<a.heap[x.o].kids[i], b.heap[y.o].kids[i]>> :
                             i \in 1..Len(a.heap[x.o].kids)}
                     ELSE {}
         IN  Related(a, b, done \cup {pr}, (todo \cup next) \ (done \cup {pr}))

Pairs(a, b) == Related(a, b, {}, {<<a.root, b.root>>})

\* Corresponding positions hold the same primitive, or objects of the same
\* kind, tag, keys and size.
Alike(a, b, pr) ==
    IF pr[1].t = "p" \/ pr[2].t = "p" THEN pr[1] = pr[2]
    ELSE /\ a.heap[pr[1].o].kind = b.heap[pr[2].o].kind
         /\ a.heap[pr[1].o].tag = b.heap[pr[2].o].tag
         /\ a.heap[pr[1].o].keys = b.heap[pr[2].o].keys
         /\ Len(a.heap[pr[1].o].kids) = Len(b.heap[pr[2].o].kids)

DeepEqual(a, b) == \A pr \in Pairs(a, b) : Alike(a, b, pr)

\* Positions of a that hold one object hold one object in b.
SharingKept(a, b) ==
    \A pr \in Pairs(a, b), qr \in Pairs(a, b) : pr[1] = qr[1] => pr[2] = qr[2]

Child(d, x, i) == d.heap[x.o].kids[i]

\* What the validate function of the fixture named n asks of the decoded d.
Validates(n, d) ==
    CASE n = "Map (cyclical)" ->
            Child(d, d.root, 1) = Prim("self") /\ Child(d, d.root, 2) = d.root
      [] n = "Set (cyclical)" ->
            /\ Len(d.heap[d.root.o].kids) = 2
            /\ \E i \in 1..2 : Child(d, d.root, i) = d.root
            /\ \E i \in 1..2 : Child(d, d.root, i) = Prim("42")
      [] n = "Array (cyclical)" ->
            Len(d.heap[d.root.o].kids) = 1 /\ Child(d, d.root, 1) = d.root
      [] n = "Object (cyclical)" ->
            d.heap[d.root.o].keys = <<"self">> /\ Child(d, d.root, 1) = d.root
      [] n = "Object (cyclical), two records" ->
            /\ Child(d, Child(d, d.root, 1), 1) = Child(d, d.root, 2)
            /\ Child(d, Child(d, d.root, 2), 1) = Child(d, d.root, 1)
            /\ Child(d, d.root, 1) # Child(d, d.root, 2)
      [] OTHER -> TRUE

\* The positions of a value: its root and what its objects hold.
Positions(val) ==
    {val.root} \cup UNION {{val.heap[i].kids[j] : j \in 1..Len(val.heap[i].kids)} :
                             i \in ReachedFrom(val.heap, {val.root.o}, {val.root.o})}

\* C2: for cyclic input flatten ends with one Part per object and primitive
\* of the value, and the decoded value has the cycle: every reference of an
\* object to itself or to another object of the cycle is the reference
\* between the decoded objects; the cyclic fixtures get the FlatTable their
\* test expects and their decoded values pass the test's validate.
C2_Cycles ==
    /\ cPc \in {"flat", "decoded"} /\ Cyclic(cv) =>
        Len(ct) = Cardinality(Positions(cv))
    /\ cPc = "decoded" /\ Cyclic(cv) =>
        /\ \A pr \in Pairs(cv, cd), qr \in Pairs(cv, cd) :
             pr[1].t = "o" /\ qr[1].t = "o" =>
                \A i \in 1..Len(cv.heap[pr[1].o].kids) :
                    Child(cv, pr[1], i) = qr[1] => Child(cd, pr[2], i) = qr[2]
        /\ Len(cd.heap) = Cardinality({x \in Positions(cv) : x.t = "o"})
    /\ \A f \in CycleFixtures :
        cv = f.value =>
            /\ cPc \in {"flat", "decoded"} => ct = f.json
            /\ cPc = "decoded" => Validates(f.name, cd)

\* The two records that refer to each other have been decoded.
C2_Witness ==
    /\ cPc = "decoded"
    /\ cv = ObjectsMutual.value
    /\ Child(cd, Obj(2), 1) = Obj(3)
    /\ Child(cd, Obj(3), 1) = Obj(2)

\* ------------------------------------------------------------------------
\* Claims about failures of the multiplexer
\* ------------------------------------------------------------------------
\* The last chunk the generator of channel c produced.
C11_LastProduced(c) == Filter(produced, c)[Len(Filter(produced, c))]

\* A cause that stringify could not flatten was handed to a coerceError that
\* returned: the channel's terminal chunk carries the coerced value.
C11_Coerced ==
    \A c \in uncoded :
        coerceError = "ok" =>
            /\ Filter(produced, c) # <<>>
            /\ C11_LastProduced(c).st = PROMISE_STATUS_REJECTED
            /\ C11_LastProduced(c).val = V("coerced", 0)
            /\ sPc # "failed"

\* coerceError has thrown in the generator of some channel.
C11_CoerceThrew == coerceError = "throws" /\ uncoded # {}

C12_Closed(c) == IF kind[c] = "P" THEN LinesOf(c) # <<>> ELSE EmittedTerminal(c)

\* The output has completed only if the active set is empty and every
\* registered channel has emitted all its chunks, the terminal one included;
\* the merge waits for the race only while the active set is not empty.
C12_EndsWhenEmpty ==
    /\ sPc = "done" =>
          /\ activeIterators = <<>>
          /\ pendingIterables = <<>>
          /\ \A c \in Registered : C12_Closed(c) /\ LinesOf(c) = Filter(produced, c)
    /\ sPc = "pull" => activeIterators # <<>>

C13_Decoded == {c \in Chan : phKind[c] # "none"}
C13_Settlements == {"fulfilled", "rejected", "unknown", "returned", "threw"}

\* Before the head is read there is no result; while the head is the only
\* line read no decoded future or sequence has settled; one that has settled
\* took a chunk that arrived for its channel, and one that failed with the
\* stream error did so after the pump stopped.
C13_SettleLater ==
    /\ pPc = "init" => rd = 0 /\ C13_Decoded = {}
    /\ pPc = "pumping" =>
          /\ rd >= 1
          /\ \A r \in wire[1].refs : r.id \in C13_Decoded
    /\ rd <= 1 /\ pPc \in {"init", "pumping"} =>
          \A c \in C13_Decoded :
              uPc[c] \in {"waiting", "idle", "dropping", "dropped"} /\ got[c] = <<>>
    /\ \A c \in C13_Decoded :
          /\ uPc[c] \in C13_Settlements =>
                /\ arrived[c] # <<>>
                /\ got[c] # <<>>
                /\ \E i \in 2..rd : wire[i].ch = c /\ Item(wire[i]) = got[c][Len(got[c])]
          /\ uPc[c] = "interrupted" => pPc \in {"ended", "failed"}

\* C13: parseAsync returns its result after reading exactly one line, the
\* head, whether or not another line arrives; the futures and sequences in
\* the result settle later, from the chunks that arrive for them.
C13_HeadOnly ==
    /\ []C13_SettleLater
    /\ [][pPc = "init" /\ pPc' = "pumping" => rd' = 1]_vars
    /\ [](pPc = "init" /\ wire # <<>> => ENABLED ReadHead)

C13_Witness ==
    /\ pPc = "pumping"
    /\ rd = 1
    /\ Len(wire) = 1
    /\ wireEnd = "open"
    /\ \E c, d \in C13_Decoded :
          /\ phKind[c] = "P" /\ uPc[c] = "waiting"
          /\ phKind[d] = "I" /\ uPc[d] = "idle"

\* ------------------------------------------------------------------------
\* Claims about a failing pump
\* ------------------------------------------------------------------------
\* The consumer of channel c has neither settled nor dropped the placeholder.
C14_StillOpen(c) == phKind[c] # "none" /\ uPc[c] \in {"waiting", "idle"}

\* C14: once the pump has failed (the transport raised an error or a line
\* could not be decoded), every channel that is still open has the
\* stream-interrupted error as the last item of its buffer, or its consumer
\* has been woken to take it, so that no consumer is left waiting for a
\* signal that will not come.
C14_FailBroadcast ==
    pPc = "failed" =>
        \A c \in Chan :
            C14_StillOpen(c) =>
                /\ buffer[c] # <<>>
                /\ buffer[c][Len(buffer[c])] = Interrupt
                /\ uPc[c] = "waiting" => deferred[c]

\* ------------------------------------------------------------------------
\* Claims about a decoded sequence
\* ------------------------------------------------------------------------
C15_KnownStatus(v) ==
    v.st \in {ASYNC_ITERABLE_STATUS_YIELD, ASYNC_ITERABLE_STATUS_ERROR,
              ASYNC_ITERABLE_STATUS_RETURN}

\* One step of the sequence decoded for channel c took items from the
\* buffer: a chunk with a status of the protocol is the only one taken, it
\* is the head of the buffer, and its status decides how the step ends.
C15_Step(c) ==
    got'[c] # got[c] =>
        LET v == Head(buffer[c])
        IN  /\ buffer[c] # <<>>
            /\ IsPrefix(Append(got[c], v), got'[c])
            /\ ~v.err /\ C15_KnownStatus(v) =>
                  /\ got'[c] = Append(got[c], v)
                  /\ buffer'[c] = Tail(buffer[c])
                  /\ v.st = ASYNC_ITERABLE_STATUS_YIELD /\ uPc[c] # "dropping" =>
                        uPc'[c] = "idle" /\ gPc'[c] = "yield" /\ c \in enqueueMap'
                  /\ v.st = ASYNC_ITERABLE_STATUS_RETURN =>
                        uPc'[c] = "returned" /\ c \notin enqueueMap'
                  /\ v.st = ASYNC_ITERABLE_STATUS_ERROR =>
                        uPc'[c] = "threw" /\ c \notin enqueueMap'

\* After a return or error chunk the sequence takes no further chunk and
\* its channel stays out of the registry.
C15_Finished(c) ==
    uPc[c] \in {"returned", "threw"} =>
        /\ got'[c] = got[c]
        /\ uPc'[c] = uPc[c]
        /\ c \notin enqueueMap /\ c \notin enqueueMap'

\* C15: a decoded sequence takes one buffered chunk of its channel per step;
\* on status yield it yields the payload and stays registered, on status
\* return it finishes with the payload, on status error it raises it; after
\* a return or error chunk it takes no further chunk and its channel is not
\* in the registry.
C15_SequenceSteps ==
    [][\A c \in Chan : phKind[c] = "I" => C15_Step(c) /\ C15_Finished(c)]_vars

C15_Witness ==
    \E c \in Chan :
        /\ phKind[c] = "I"
        /\ uPc[c] = "returned"
        /\ Len(got[c]) = 2
        /\ got[c][1].st = ASYNC_ITERABLE_STATUS_YIELD
        /\ got[c][2].st = ASYNC_ITERABLE_STATUS_RETURN
        /\ c \notin enqueueMap

\* ------------------------------------------------------------------------
\* Claims about sources met after the race has started
\* ------------------------------------------------------------------------
\* The channels of sources met in the payload of another channel's chunk.
C16_Nested == {c \in Registered : c > Len(value)}

\* The position in the sequence s of the line that carries the placeholder
\* of channel c; 0 when there is none.
C16_Announced(s, c) ==
    IF \E i \in 1..Len(s) : \E r \in s[i].refs : r.id = c
    THEN CHOOSE i \in 1..Len(s) : \E r \in s[i].refs : r.id = c
    ELSE 0

\* While the output is running a nested source has its own channel, with an
\* id no source of the head has, and its entry in the active set as long as
\* it has a step or a chunk outstanding; the output completes only when all
\* its chunks, the terminal one included, have been emitted.  The future
\* decoded from a chunk's payload settles from the one chunk of its channel,
\* read after the line that carried its placeholder.
C16_Joined ==
    \A c \in C16_Nested :
        /\ sPc \in {"pull", "line", "done"} =>
              /\ C16_Announced(produced, c) > 0
              /\ produced[C16_Announced(produced, c)].ch \in Chan \ {c}
        /\ sPc \in {"pull", "line"} /\ st[c] \in {"await", "item", "last"} =>
              c \in SeqToSet(activeIterators) \/ mCur = c
        /\ sPc = "done" => C12_Closed(c) /\ LinesOf(c) = Filter(produced, c)
        /\ phKind[c] = "P" /\ uPc[c] \in Resolved =>
              /\ got[c] = <<Item(LinesOf(c)[1])>>
              /\ \E i \in 2..rd :
                    /\ wire[i].ch = c
                    /\ C16_Announced(wire, c) \in 2..(i - 1)

RECURSIVE C17_IdsOf(_, _)
\* The ids given out by call k, in the order they were given out.
C17_IdsOf(log, k) ==
    IF log = <<>> THEN <<>>
    ELSE IF Head(log).call = k THEN <<Head(log).idx>> \o C17_IdsOf(Tail(log), k)
    ELSE C17_IdsOf(Tail(log), k)

\* C17: in every call the ids are 1, 2, 3, ... in the order the sources were
\* met: pairwise distinct, positive, never 0, one per registered channel;
\* this holds of each call whatever ids the other calls have given out,
\* before it or in between.
C17_LocalIds ==
    \A k \in 1..MaxCalls :
        /\ C17_IdsOf(assigned, k) = [i \in 1..calls[k].counter |-> i]
        /\ {c \in Chan : calls[k].kind[c] # "none"} = 1..calls[k].counter
        /\ \A i \in 1..Len(assigned) : assigned[i].idx >= 1

C17_Witness ==
    /\ Len(assigned) >= 4
    /\ assigned[1] = [call |-> 1, idx |-> 1]
    /\ assigned[2] = [call |-> 2, idx |-> 1]
    /\ assigned[3] = [call |-> 1, idx |-> 2]
    /\ assigned[4] = [call |-> 2, idx |-> 2]

\* ------------------------------------------------------------------------
\* Claims about the lines and their status codes
\* ------------------------------------------------------------------------
\* What the consumer of a placeholder of kind k meets when parseAsync is
\* handed the line l as the only chunk of the channel.
C18_Interpreted(k, l) ==
    LET c == l.ch
        D == [enqueueMap |-> {c},
              phKind |-> [d \in Chan |-> IF d = c THEN k ELSE "none"],
              gPc |-> [d \in Chan |-> IF d = c THEN "await" ELSE "none"],
              buffer |-> [d \in Chan |-> IF d = c THEN <<Item(l)>> ELSE <<>>],
              deferred |-> [d \in Chan |-> FALSE],
              uPc |-> [d \in Chan |-> IF d = c THEN "waiting" ELSE "none"],
              got |-> [d \in Chan |-> <<>>]]
    IN  Drain(D, c).uPc[c]

\* What the source did to give rise to the line l, read off its payload.
C18_Meant(l) ==
    IF l.val.tag = "value" THEN "fulfilled"
    ELSE IF l.val.tag = "yield" THEN "idle"
    ELSE IF l.val.tag = "return" THEN "returned"
    ELSE IF kind[l.ch] = "P" THEN "rejected"
    ELSE "threw"

\* C18: every line after the head is [channelId, status, payload] for a
\* registered channel; the status is fulfilled or rejected on a
\* pending-single channel and yield, error or return on a pending-sequence
\* channel; a pending-sequence channel emits yields and then at most one
\* terminal line, exactly one when the output has completed, and nothing
\* after it; parseAsync reads each status as what the source did.
C18_LineShape ==
    /\ \A i \in 1..Len(ChunkLines) :
          LET l == ChunkLines[i]
          IN  /\ l.ch \in Registered
              /\ kind[l.ch] = "P" =>
                    l.st \in {PROMISE_STATUS_FULFILLED, PROMISE_STATUS_REJECTED}
              /\ kind[l.ch] = "I" =>
                    l.st \in {ASYNC_ITERABLE_STATUS_YIELD, ASYNC_ITERABLE_STATUS_ERROR,
                              ASYNC_ITERABLE_STATUS_RETURN}
              /\ C18_Interpreted(kind[l.ch], l) = C18_Meant(l)
    /\ \A c \in Registered :
          /\ kind[c] = "I" =>
                /\ \A i \in 1..(Len(LinesOf(c)) - 1) :
                      LinesOf(c)[i].st = ASYNC_ITERABLE_STATUS_YIELD
                /\ sPc = "done" => Terminal(LinesOf(c)[Len(LinesOf(c))])
          /\ kind[c] = "P" => Len(LinesOf(c)) <= 1

C18_Witness ==
    /\ sPc = "done"
    /\ \E c, d, e \in Registered :
          /\ kind[c] = "I" /\ kind[d] = "I" /\ kind[e] = "P"
          /\ Len(LinesOf(c)) = 2
          /\ LinesOf(c)[2].st = ASYNC_ITERABLE_STATUS_RETURN
          /\ LinesOf(d)[Len(LinesOf(d))].st = ASYNC_ITERABLE_STATUS_ERROR
          /\ LinesOf(e)[1].st = PROMISE_STATUS_REJECTED

\* ------------------------------------------------------------------------
\* Claims about dropped and unregistered channels
\* ------------------------------------------------------------------------
\* The buffer, the registration and the delivered values of every channel
\* but c are left as they are.
C19_OthersKept(c) ==
    \A d \in Chan \ {c} :
        /\ buffer'[d] = buffer[d]
        /\ (d \in enqueueMap') = (d \in enqueueMap)
        /\ got'[d] = got[d]
        /\ uPc'[d] = uPc[d]
        /\ phKind'[d] = phKind[d]

\* The pump reads a line addressed to a channel without entry in the
\* registry: nothing but the read position changes.
C19_Discarded ==
    pPc = "pumping" /\ rd' = rd + 1 /\ wire[rd + 1].ch \in Chan \ enqueueMap =>
        /\ C19_OthersKept(0)
        /\ deferred' = deferred
        /\ pPc' = "pumping"

\* The drop of the sequence of channel c takes effect.
C19_Dropped(c) ==
    uPc[c] # "dropped" /\ uPc'[c] = "dropped" =>
        /\ c \notin enqueueMap'
        /\ C19_OthersKept(c)
        /\ pPc' = pPc

\* The consumer calls return() on the sequence of channel c.
C19_Drops(c) ==
    /\ phKind[c] = "I"
    /\ uPc[c] \in {"idle", "waiting"}
    /\ uPc'[c] \in {"dropping", "dropped"}

\* C19 as stated: when the consumer drops a sequence its channel is removed
\* from the registry, chunks arriving for it afterwards are discarded, and
\* no other channel is touched; a chunk for an unregistered id is discarded
\* without effect on any channel or on the pump.
C19_Original ==
    [][/\ \A c \in Chan : C19_Drops(c) => c \notin enqueueMap' /\ C19_OthersKept(c)
       /\ \A c \in Chan : C19_Dropped(c)
       /\ C19_Discarded]_vars

\* C19 as amended: the same when the sequence is dropped between two steps
\* or before its first; dropped while a step of the consumer is pending the
\* channel stays in the registry, untouched, until the pending step takes an
\* item, and is removed then; no other channel is touched either way.
C19_DropFrame ==
    [][/\ \A c \in Chan :
             C19_Drops(c) =>
                 /\ C19_OthersKept(c)
                 /\ uPc[c] = "idle" => uPc'[c] = "dropped" /\ c \notin enqueueMap'
                 /\ uPc[c] = "waiting" =>
                       /\ uPc'[c] = "dropping"
                       /\ buffer'[c] = buffer[c] /\ got'[c] = got[c]
                       /\ (c \in enqueueMap') = (c \in enqueueMap)
       /\ \A c \in Chan : C19_Dropped(c)
       /\ \A c \in Chan : uPc[c] = "dropping" /\ got'[c] = got[c] => c \in enqueueMap'
       /\ C19_Discarded]_vars

C19_Witness ==
    \E c, d \in Chan :
        /\ uPc[c] = "dropped"
        /\ Len(got[c]) = 1
        /\ rd = MaxLines
        /\ wire[rd].ch = c
        /\ phKind[d] = "P"
        /\ d \in enqueueMap

\* ------------------------------------------------------------------------
\* Claims about the wake signal of a buffer
\* ------------------------------------------------------------------------
\* The generator of channel c is suspended on its deferred (line 270).
C20_Suspended(c) == c \in enqueueMap /\ gPc[c] = "await"

\* No state has a channel with an item in its buffer, its generator
\* suspended on the deferred, and the deferred unresolved; so the generator
\* can resume.
C20_NoLostWakeup ==
    \A c \in Chan :
        C20_Suspended(c) /\ buffer[c] # <<>> => deferred[c] /\ ENABLED Wake(c)

\* C20: the wake-up of a channel's buffer is never lost, in any interleaving
\* of the pump's enqueue steps with the consumer's steps; a suspended
\* consumer resumes after an enqueue, and every item in the buffer of a
\* consumer that keeps iterating is eventually taken, or the consumer has
\* finished before it.
C20_WakeUp ==
    /\ []C20_NoLostWakeup
    /\ [][\A c \in Chan : C20_Suspended(c) /\ buffer'[c] # buffer[c] /\ got'[c] = got[c]
                              => deferred'[c]]_vars
    /\ \A c \in Chan :
          (c \in enqueueMap /\ buffer[c] # <<>>) ~> (buffer[c] = <<>> \/ c \notin enqueueMap)

C20_Witness ==
    \E c \in Chan :
        /\ phKind[c] = "I"
        /\ Len(wire) = 3
        /\ Len(got[c]) = 2
        /\ got[c][1] = Item(wire[2])
        /\ got[c][2] = Item(wire[3])
        /\ got[c][1].st = ASYNC_ITERABLE_STATUS_YIELD
        /\ buffer[c] = <<>>


\* ------------------------------------------------------------------------
\* C21: undefined, a hole, NaN, +Infinity, -Infinity and -0 take no Part:
\* each occurrence is written as its code -1 .. -6 in place of a ReferenceId,
\* or as the whole document when it is the root; [0, -0] flattens to
\* [[1,-6],0] and decodes to +0 followed by -0; and the value decoded from
\* the document has every special value where the input had it, so the
\* special values stay distinct from one another and from 0.
\* ------------------------------------------------------------------------
\* A call without reducers on a special value alone or on one object.
C21_Plain ==
    /\ cPc \in {"json", "parsed", "invalid"}
    /\ cv # NoValue
    /\ cv.reducers = <<>>
    /\ Len(cv.heap) <= 1
    /\ \A i \in 1..Len(cv.heap) :
        "sym" \notin DOMAIN cv.heap[i] /\ cv.heap[i].kind \in {"Array", "Object", "Map", "Set"}

ZeroThenNegativeZero == Call(Value(<<Arr(<<Prim("0"), Special("-0")>>)>>, Obj(1)), <<>>)

C21_SpecialCodes ==
    /\ C21_Plain /\ cv.root.t = "s" => ct = JsonNumber(Code(cv.root.v))
    /\ C21_Plain /\ cv.root.t = "p" => ct = JsonArray(<<PrimPart(cv.root.v)>>)
    /\ C21_Plain /\ cv.root.t = "o" =>
        LET kids == cv.heap[1].kids
            prims == {kids[i] : i \in {j \in 1..Len(kids) : kids[j].t = "p"}}
        IN  /\ ct.top = "array"
            /\ Len(ct.parts) = 1 + Cardinality(prims)
            /\ \A n \in 2..Len(ct.parts) : ct.parts[n].t = "prim" /\ Prim(ct.parts[n].v) \in prims
            /\ \A i \in 1..Len(kids) :
                IF kids[i].t = "s" THEN ct.parts[1].ids[i] = Code(kids[i].v)
                ELSE kids[i].t = "p" =>
                        /\ ct.parts[1].ids[i] \in 1..(Len(ct.parts) - 1)
                        /\ ct.parts[ct.parts[1].ids[i] + 1] = PrimPart(kids[i].v)
    /\ C21_Plain /\ cv = ZeroThenNegativeZero =>
        ct = JsonArray(<<PArr(<<1, NEGATIVE_ZERO>>), PrimPart("0")>>)
    /\ C21_Plain /\ cPc # "json" =>
        /\ cPc = "parsed"
        /\ cd.root = cv.root
        /\ cd.heap = cv.heap

C21_Witness ==
    /\ cPc = "parsed"
    /\ cv = ZeroThenNegativeZero
    /\ ct = JsonArray(<<PArr(<<1, -6>>), PrimPart("0")>>)
    /\ cd.heap[1].kids = <<Prim("0"), Special("-0")>>

\* ------------------------------------------------------------------------
\* C22: for every list with holes flatten writes the hole code -2 at each
\* hole position, and unflatten reproduces a list of the same length whose
\* holes are at exactly the same indices; an element that is explicitly
\* undefined is written as -1 and decodes to a present undefined element,
\* not to a hole.
\* ------------------------------------------------------------------------
C22_List ==
    /\ cPc \in {"json", "parsed", "invalid"}
    /\ cv # NoValue
    /\ cv.reducers = <<>>
    /\ Len(cv.heap) = 1
    /\ cv.heap[1].kind = "Array"
    /\ \E i \in 1..Len(cv.heap[1].kids) : cv.heap[1].kids[i] = Hole

C22_Holes ==
    C22_List =>
        LET kids == cv.heap[1].kids
        IN  /\ ct.top = "array"
            /\ Len(ct.parts[1].ids) = Len(kids)
            /\ \A i \in 1..Len(kids) :
                /\ ct.parts[1].ids[i] = HOLE <=> kids[i] = Hole
                /\ ct.parts[1].ids[i] = UNDEFINED <=> kids[i] = Special("undefined")
            /\ cv = Call(ArraySparse.value, <<>>) => ct = JsonArray(ArraySparse.json)
            /\ cPc # "json" =>
                /\ cPc = "parsed"
                /\ cd.heap[1].kind = "Array"
                /\ Len(cd.heap[1].kids) = Len(kids)
                /\ \A i \in 1..Len(kids) :
                    /\ cd.heap[1].kids[i] = Hole <=> kids[i] = Hole
                    /\ cd.heap[1].kids[i] = Special("undefined")
                        <=> kids[i] = Special("undefined")

C22_Witness ==
    /\ cPc = "parsed"
    /\ cv.heap = <<Arr(<<Hole, Special("undefined"), Prim("a")>>)>>
    /\ ct = JsonArray(<<PArr(<<-2, -1, 1>>), PrimPart("a")>>)
    /\ cd.heap[1].kids = <<Hole, Special("undefined"), Prim("a")>>

\* ------------------------------------------------------------------------
\* C23: during one flatten call every distinct composite value receives
\* exactly one ReferenceId, assigned on first encounter before any of its
\* children is visited: the root is id 0, ids grow in depth-first pre-order,
\* a later occurrence of the same identity reuses its id, two structurally
\* equal but distinct objects get distinct ids, and equal primitive values
\* share one Part.  [a, b] with a.second = b and b.first = a flattens to
\* [[1,2],{"second":2},{"first":1}].
\* ------------------------------------------------------------------------
\* The positions of a value in the order of their first encounter, depth
\* first from the root, each listed once.
RECURSIVE C23_Visit(_, _, _)
RECURSIVE C23_VisitAll(_, _, _)
C23_Visit(h, s, seen) ==
    IF \E i \in 1..Len(seen) : seen[i] = s THEN seen
    ELSE IF s.t = "p" THEN Append(seen, s)
    ELSE C23_VisitAll(h, h[s.o].kids, Append(seen, s))

C23_VisitAll(h, kids, seen) ==
    IF kids = <<>> THEN seen
    ELSE C23_VisitAll(h, Tail(kids), C23_Visit(h, Head(kids), seen))

C23_IdOf(order, s) == (CHOOSE i \in 1..Len(order) : order[i] = s) - 1

C23_PreOrderIds ==
    cPc \in {"flat", "decoded"} =>
        LET h == cv.heap
            order == C23_Visit(h, cv.root, <<>>)
        IN  /\ order[1] = cv.root
            /\ Len(ct) = Len(order)
            /\ \A n \in 1..Len(order) :
                IF order[n].t = "p" THEN ct[n] = PrimPart(order[n].v)
                ELSE LET ob == h[order[n].o]
                     IN  ct[n] = CompositePart(ob,
                                    [j \in 1..Len(ob.kids) |-> C23_IdOf(order, ob.kids[j])])
            /\ Cardinality({n \in 1..Len(ct) : ct[n].t # "prim"})
                  = Cardinality({order[n].o : n \in {m \in 1..Len(order) : order[m].t = "o"}})
            /\ cv = ObjectsMutual.value =>
                  ct = <<PArr(<<1, 2>>), PRec(<<"second">>, <<2>>), PRec(<<"first">>, <<1>>)>>
            /\ cv = StringRepetition.value => ct = <<PArr(<<1, 1>>), PrimPart("a string")>>

\* Two lists that are equal in structure, each holding the second list and
\* the same string: [[1,2],[1,2],"a"].
C23_Witness ==
    /\ cPc = "flat"
    /\ cv.heap = <<Arr(<<Obj(2), Prim("a")>>), Arr(<<Obj(2), Prim("a")>>)>>
    /\ ct = <<PArr(<<1, 2>>), PArr(<<1, 2>>), PrimPart("a")>>

\* ------------------------------------------------------------------------
\* C24: when flatten meets an unsupported value anywhere in the graph it
\* fails with one structured error whose path is the accessor chain from
\* the root to that value, whose value is the offending value and whose
\* root is the top-level input: { foo: { array: [fn] } } gives
\* ".foo.array[0]", a value under key "key" of a Map at foo["string-key"]
\* gives .foo["string-key"].get("key"), and a Map visited before the failing
\* record leaves no segment behind (".object.invalid").
\* ------------------------------------------------------------------------
\* A call of stringify without reducers that has returned or thrown.
C24_Called ==
    /\ cPc \in {"threw", "json", "parsed", "invalid"}
    /\ cv # NoValue
    /\ cv.reducers = <<>>

\* A function, an instance of a class that is not built in, or a record
\* with an enumerable symbolic key.
C24_Unsupported(h, s) ==
    \/ s.t = "f"
    \/ /\ s.t = "o"
       /\ \/ h[s.o].kind = "Custom" /\ h[s.o].tag # "Date"
          \/ h[s.o].kind = "Object" /\ SymOf(h[s.o]) = "enumerable"

\* The values of the graph: the root, the objects reached from it and their
\* children.
C24_Reached(val) ==
    LET objs == IF val.root.t = "o"
                THEN {val.root.o} \cup ReachedFrom(val.heap, {val.root.o}, {})
                ELSE {}
    IN  {val.root} \cup {Obj(i) : i \in objs}
        \cup UNION {{val.heap[i].kids[j] : j \in 1..Len(val.heap[i].kids)} : i \in objs}

\* The accessor chains that lead from s to the target through at most n
\* objects.
RECURSIVE C24_Chains(_, _, _, _)
C24_Chains(h, s, target, n) ==
    IF s = target THEN {""}
    ELSE IF n = 0 \/ s.t # "o" THEN {}
    ELSE UNION {{Join(Segments(h[s.o], i)) \o rest :
                    rest \in C24_Chains(h, h[s.o].kids[i], target, n - 1)} :
                i \in 1..Len(h[s.o].kids)}

C24_ErrorPath ==
    C24_Called =>
        /\ cPc = "threw" <=> \E s \in C24_Reached(cv) : C24_Unsupported(cv.heap, s)
        /\ cPc = "threw" =>
            /\ ct.error.root = cv.root
            /\ ct.error.value \in C24_Reached(cv)
            /\ C24_Unsupported(cv.heap, ct.error.value)
            /\ ct.error.path \in C24_Chains(cv.heap, cv.root, ct.error.value, Len(cv.heap))
            /\ ct.error.value.t = "f" <=> ct.error.message = "Cannot stringify a function"
        /\ cv = Call(InvalidFunction, <<>>) =>
            /\ ct.error.message = "Cannot stringify a function"
            /\ ct.error.path = ".foo.array[0]"
            /\ ct.error.value = Fn
            /\ ct.error.root = Obj(1)
        /\ cv = Call(InvalidInMap, <<>>) =>
            /\ ct.error.message = "Cannot stringify arbitrary non-POJOs"
            /\ ct.error.path = ".foo[\"string-key\"].get(\"key\")"
            /\ ct.error.value = Obj(4)
            /\ ct.error.root = Obj(1)
        /\ cv = Call(InvalidAfterMap, <<>>) =>
            /\ ct.error.message = "Cannot stringify a function"
            /\ ct.error.path = ".object.invalid"

\* The failing record comes after a Map in its parent.
C24_Witness ==
    /\ cPc = "threw"
    /\ cv = Call(InvalidAfterMap, <<>>)
    /\ ct.error.path = ".object.invalid"
    /\ ct.error.value = Fn
    /\ ct.error.root = cv.root

\* ------------------------------------------------------------------------
\* C25: flatten rejects a keyed record that has an enumerable symbolic key,
\* with an error whose value is that record and whose root is the top-level
\* input; a non-enumerable symbolic key does not cause rejection and is
\* omitted from the output: { x: 1 } with a hidden symbolic key flattens to
\* [{"x":1},1].
\* ------------------------------------------------------------------------
C25_Symbolic(h, s, sym) == s.t = "o" /\ h[s.o].kind = "Object" /\ SymOf(h[s.o]) = sym

\* The value without its non-enumerable symbolic keys.
C25_Stripped(val) ==
    Call(Value([i \in 1..Len(val.heap) |->
                   IF SymOf(val.heap[i]) = "hidden"
                   THEN Rec(val.heap[i].keys, val.heap[i].kids) ELSE val.heap[i]],
               val.root), <<>>)

C25_SymbolicKeys ==
    C24_Called =>
        /\ C25_Symbolic(cv.heap, cv.root, "enumerable") =>
            /\ cPc = "threw"
            /\ ct.error.message = "Cannot stringify POJOs with symbolic keys"
            /\ ct.error.value = cv.root
            /\ ct.error.root = cv.root
        /\ (\E s \in C24_Reached(cv) : C25_Symbolic(cv.heap, s, "enumerable")) => cPc = "threw"
        /\ cPc = "threw" /\ ct.error.message = "Cannot stringify POJOs with symbolic keys" =>
            /\ C25_Symbolic(cv.heap, ct.error.value, "enumerable")
            /\ ct.error.value \in C24_Reached(cv)
            /\ ct.error.root = cv.root
        /\ (\A s \in C24_Reached(cv) : ~C24_Unsupported(cv.heap, s)) =>
            /\ cPc # "threw"
            /\ ct = stringify(C25_Stripped(cv), <<>>)
        /\ cv = Call(HiddenSymbolicKey, <<>>) =>
            ct = JsonArray(<<PRec(<<"x">>, <<1>>), PrimPart("1")>>)

C25_Witness ==
    /\ cPc = "threw"
    /\ cv = Call(SymbolicKey, <<>>)
    /\ ct.error.message = "Cannot stringify POJOs with symbolic keys"
    /\ ct.error.value = Obj(1)
    /\ ct.error.root = Obj(1)

\* ------------------------------------------------------------------------
\* C26: unflatten rejects a FlatTable with the __proto__ error when it
\* resolves a plain-record Part that has a key named __proto__, as in
\* [{"__proto__":1},{}]; it returns no partially built value when it fails;
\* and no record it returns has a key __proto__, so that no decoded record
\* has its prototype changed by the input.
\* ------------------------------------------------------------------------
\* parse has returned or thrown on an array of Parts.
C26_Parsed == cPc \in {"parsed", "invalid"} /\ ct.top = "array"

C26_ProtoPart(part) ==
    part.t = "Object" /\ \E i \in 1..Len(part.keys) : part.keys[i] = "__proto__"

C27_Done == cPc \in {"parsed", "invalid"}

\* The root Part is a typed view whose reference is the index of Part n.
C27_ViewOf(n) ==
    /\ ct.top = "array"
    /\ ct.parts # <<>>
    /\ ct.parts[1].t \in TypedArrays
    /\ ct.parts[1].ids = <<n - 1>>
    /\ n \in 2..Len(ct.parts)

C27_InvalidInput ==
    C27_Done =>
        /\ ct.top \in {"string", "boolean", "null", "object"} => cd.message = "Invalid input"
        /\ ct.top = "array" /\ ct.parts = <<>> => cd.message = "Invalid input"
        /\ ct.top = "number" =>
            IF ct.n \in {UNDEFINED, NAN, POSITIVE_INFINITY, NEGATIVE_INFINITY, NEGATIVE_ZERO}
            THEN cPc = "parsed" /\ cd.root = Decoded(ct.n)
            ELSE cd.message = "Invalid input"
        /\ (ct.top = "array" /\ ct.parts # <<>> /\ ct.parts[1].t = "Object"
            /\ \E i \in 1..Len(ct.parts[1].ids) :
                /\ TypeofRef(ct.parts[1], i) = "string"
                /\ \A j \in 1..(i - 1) : ct.parts[1].ids[j] \in 1..(Len(ct.parts) - 1)
                                         /\ ct.parts[ct.parts[1].ids[j] + 1].t = "prim"
                /\ \A j \in 1..i : ct.parts[1].keys[j] # "__proto__")
            => cd.message = "Invalid input"
        /\ ct = JsonArray(BadIndex) => cd.message = "Invalid input"
        /\ \A n \in 2..MaxParts + 1 :
            C27_ViewOf(n) =>
                IF ct.parts[n].t = "ArrayBuffer" THEN cPc = "parsed"
                ELSE ct.parts[n].t \in {"Object", "Array"} /\ ct.parts[n].ids = <<>> =>
                        cd.message = "Invalid input, expected ArrayBuffer but got object"
        /\ ct = JsonArray(NonArrayBuffer) =>
            cd.message = "Invalid input, expected ArrayBuffer but got object"
        /\ cPc = "invalid" => cd.heap = <<>>

C27_Witness ==
    /\ cPc = "invalid"
    /\ ct = JsonArray(BadIndex)
    /\ cd.message = "Invalid input"

\* ------------------------------------------------------------------------
\* C28: reducers are tried in registration order and the first one whose
\* result is truthy wins, producing the tagged Part [tag, id of the flattened
\* result]; a reducer whose result is falsy (false, undefined, the empty
\* string) declines; when all decline the built-in encoding applies (a Date
\* with a reducer returning '' still yields [["Date",""]]) or, for an
\* unsupported value, flatten fails; only own entries of the reducers object
\* are consulted.
\* ------------------------------------------------------------------------
C28_Called ==
    /\ cPc \in {"threw", "json", "parsed", "invalid"}
    /\ cv # NoValue
    /\ cv.root = Obj(1)

\* The own entries, and whether entry e accepts the instance ob: ob is of
\* the entry's class and the entry hands over a value that is neither the
\* empty string nor undefined.
C28_Own == SelectSeq(cv.reducers, LAMBDA e : e.own)
C28_Accepts(e, ob) ==
    /\ e.class = ob.tag
    /\ e.fn = "value"
    /\ ob.kids[1] \notin {Prim(""), Special("undefined")}

\* The key of the reducer that wins for ob: "" when all decline.
C28_Winner(ob) ==
    LET own == C28_Own
        acc == {i \in 1..Len(own) : C28_Accepts(own[i], ob)}
    IN  IF acc = {} THEN ""
        ELSE own[CHOOSE i \in acc : \A j \in acc : i <= j].key

\* The Part of the value that a reducer handed over.
C28_PartOf(s) ==
    IF s.t = "p" THEN PrimPart(s.v) ELSE CompositePart(cv.heap[s.o], <<2>>)

C28_ReducerOrder ==
    C28_Called =>
        /\ cv.heap[1].kind = "Custom" =>
            LET ob == cv.heap[1]
                key == C28_Winner(ob)
            IN  IF key # ""
                THEN /\ cPc # "threw"
                     /\ ct.parts[1] = TaggedPart(key, 1)
                     /\ ct.parts[2] = C28_PartOf(ob.kids[1])
                ELSE IF ob.tag = "Date"
                THEN cPc # "threw" /\ ct = JsonArray(<<DatePart(ob.kids[1].v)>>)
                ELSE /\ cPc = "threw"
                     /\ ct.error.message = "Cannot stringify arbitrary non-POJOs"
                     /\ ct.error.value = cv.root
        /\ (cv.heap[1].kind = "Array" /\ Len(cv.heap) = 3 /\ cv.heap[2].kind = "Custom"
            /\ cv.heap[3].kind = "Custom" /\ cv.heap[3].tag = "Date") =>
            LET key == C28_Winner(cv.heap[2])
            IN  IF key = "" THEN cPc = "threw" /\ ct.error.path = "[0]"
                ELSE ct = JsonArray(<<PArr(<<1, 3>>), TaggedPart(key, 2),
                                      PrimPart(cv.heap[2].kids[1].v),
                                      DatePart(cv.heap[3].kids[1].v)>>)
        /\ cv = CustomFallback => ct = JsonArray(<<DatePart("")>>)
        /\ cv = Call(CustomType.value, FooBar) => ct = JsonArray(CustomType.json)

\* Two own reducers accept a Foo: the one registered first gives the tag.
C28_Witness ==
    /\ cPc = "json"
    /\ cv.heap = <<Cust("Foo", Obj(2)), Rec(<<"answer">>, <<Prim("42")>>)>>
    /\ cv.reducers = <<Reducer("Bar", "Foo", "value", TRUE), Reducer("Foo", "Foo", "value", TRUE)>>
    /\ ct = JsonArray(<<TaggedPart("Bar", 1), PRec(<<"answer">>, <<2>>), PrimPart("42")>>)

\* ------------------------------------------------------------------------
\* C29: decode85(encode85(b)) equals b byte for byte for every byte sequence
\* b, the empty one and those that leave 1, 2 or 3 trailing bytes included;
\* encode85 emits exactly n + ceil(n/4) characters for n bytes, all from the
\* alphabet of 85 characters; and the decode table is the inverse of the
\* encode alphabet: DECODE[code(ENCODE[i]) - 32] = i for every i in 0..84.
\* ------------------------------------------------------------------------
C29_RoundTrip85 ==
    /\ Len(ENCODE) = 85
    /\ \A j \in 1..4 : POW_85[j + 1] = 85 * POW_85[j]
    /\ \A j \in 1..3 : POW_256[j + 1] = 256 * POW_256[j]
    /\ \A i \in 0..84 : DECODE[ENCODE[i + 1] - 32 + 1] = i
    /\ cPc \in {"text", "binary"} =>
        /\ Len(ct) = Len(cv) + (Len(cv) + 3) \div 4
        /\ \A k \in 1..Len(ct) : \E i \in 1..85 : ENCODE[i] = ct[k]
    /\ cPc = "binary" => cd = cv

\* Five bytes: one full group and one trailing byte.
C29_Witness ==
    /\ cPc = "binary"
    /\ Len(cv) = 5
    /\ cv[5] = 255
    /\ Len(ct) = 7
    /\ cd = cv

\* ------------------------------------------------------------------------
\* Claims about the order of a placeholder and the lines of its channel
\* ------------------------------------------------------------------------
\* A nested source whose step has completed, so that its chunk is waiting in
\* entry of the running merge, while the chunk that mentions it has not been
\* emitted yet: the source was settled when it was discovered, or settled
\* before the merge generator was resumed.
C30_SettledEarly(c) ==
    /\ c \in C16_Nested
    /\ mPc \in {"race", "yield"}
    /\ c \in SeqToSet(activeIterators)
    /\ st[c] \in {"item", "last"}
    /\ C16_Announced(out, c) = 0

\* Entry p stands before entry c in the sequence es.
C30_Before(es, p, c) ==
    \E i, j \in 1..Len(es) : i < j /\ es[i] = p /\ es[j] = c

C31_Writable(c) == c \notin uncoded \/ coerceError = "ok"

\* The chunks of channel c before its last one are yields of a sequence.
C31_YieldsBefore(ls, n) ==
    \A i \in 1..n :
        /\ kind[ls[i].ch] = "I"
        /\ ls[i].st = ASYNC_ITERABLE_STATUS_YIELD
        /\ ls[i].val.tag = "yield"

\* C31: a source that fulfils, yields or returns with a value stringify
\* cannot flatten has not failed itself, and its step is the last of its
\* channel.  When the flattening error can be written, by stringify or by
\* coerceError, the channel's generator produces exactly one error chunk:
\* status rejected (error for a sequence) with the error or its substitute as
\* payload, as the only chunk of a pending-single and as the terminal chunk
\* after the yields of a pending-sequence, and no fulfilled or return chunk.
\* When it cannot be written the channel produces no such chunk and its
\* generator throws.  The cleanup of a sequence's source has been invoked
\* once when its generator has finished, and a single has none.  The lines
\* emitted for the channel are a prefix of the chunks produced.
C31_UnflattenableValue ==
    \A c \in unflat :
        LET ls == Filter(produced, c)
        IN  /\ c \notin failed
            /\ st[c] \in {"last", "done", "threw"}
            /\ IF C31_Writable(c)
               THEN /\ ls # <<>>
                    /\ ls[Len(ls)].st = (IF kind[c] = "P" THEN PROMISE_STATUS_REJECTED
                                                         ELSE ASYNC_ITERABLE_STATUS_ERROR)
                    /\ ls[Len(ls)].val.tag = (IF c \in uncoded THEN "coerced" ELSE "cause")
                    /\ ls[Len(ls)].refs = {}
                    /\ C31_YieldsBefore(ls, Len(ls) - 1)
                    /\ kind[c] = "P" => Len(ls) = 1
                    /\ st[c] \in {"last", "done"}
               ELSE /\ C31_YieldsBefore(ls, Len(ls))
                    /\ kind[c] = "P" => ls = <<>>
                    /\ st[c] = "threw"
            /\ returns[c] <= CloseCount(kind[c])
            /\ (st[c] \in {"done", "threw"} /\ kind[c] = "I") => returns[c] = 1
            /\ IsPrefix(Filter(out, c), ls)

C31_Witness ==
    \E c, d \in unflat :
        /\ kind[c] = "P" /\ kind[d] = "I"
        /\ c \notin uncoded /\ d \in uncoded /\ coerceError = "ok"
        /\ Filter(out, c) = Filter(produced, c) /\ Len(LinesOf(c)) = 1
        /\ Filter(out, d) = Filter(produced, d) /\ Len(LinesOf(d)) = 2
        /\ st[d] = "done"
        /\ returns[d] = 1

\* ------------------------------------------------------------------------
\* Claims about a terminal chunk that is followed by the interrupt error
\* ------------------------------------------------------------------------
\* What was pushed to the buffer of channel c since it was registered: what
\* its generator has taken, then what still waits.
C32_Enqueued(c) == got[c] \o buffer[c]

\* The item ends its channel: any chunk of a pending-single, the return or
\* error chunk of a pending-sequence.
C32_Terminal(c, v) ==
    /\ ~v.err
    /\ \/ phKind[c] = "P"
       \/ v.st \in {ASYNC_ITERABLE_STATUS_RETURN, ASYNC_ITERABLE_STATUS_ERROR}

\* The position of the first terminal chunk among the items pushed for
\* channel c; 0 when there is none.
C32_TerminalAt(c) ==
    LET q == C32_Enqueued(c)
        T == {i \in 1..Len(q) : C32_Terminal(c, q[i])}
    IN  IF T = {} THEN 0 ELSE CHOOSE i \in T : \A j \in T : i <= j

\* The outcome the consumer of channel c observes for the terminal chunk v.
C32_Outcome(c, v) ==
    IF phKind[c] = "P" THEN PromiseOutcome(v)
    ELSE IF v.st = ASYNC_ITERABLE_STATUS_RETURN THEN "returned" ELSE "threw"

\* C32: a channel for which a terminal chunk was pushed to its buffer never
\* shows its consumer the stream-interrupted error: the error stands behind
\* the terminal chunk in the buffer, the generator takes the items in the
\* order they were pushed and none beyond the terminal chunk, and once the
\* consumer has an outcome it is the one of the terminal chunk (or the
\* consumer dropped the sequence), with every chunk pushed before it taken
\* first; this also holds when the pump ended or failed, and pushed the
\* error, before the consumer had taken the terminal chunk.  As long as the
\* terminal chunk waits, the generator is ready to resume or it is the
\* consumer's turn to ask.
C32_TerminalWins ==
    \A c \in C13_Decoded :
        LET q == C32_Enqueued(c)
            k == C32_TerminalAt(c)
        IN  k > 0 =>
              /\ \A i \in 1..k : ~q[i].err
              /\ Len(got[c]) <= k
              /\ uPc[c] \notin {"interrupted", "none"}
              /\ uPc[c] \in C13_Settlements =>
                    /\ got[c] = SubSeq(q, 1, k)
                    /\ uPc[c] = C32_Outcome(c, q[k])
                    /\ c \notin enqueueMap
              /\ uPc[c] = "dropped" => phKind[c] = "I"
              /\ Len(got[c]) < k =>
                    \/ uPc[c] \in {"dropped", "idle"}
                    \/ gPc[c] = "await" /\ deferred[c]

C32_Witness ==
    \E c \in C13_Decoded :
        /\ phKind[c] = "I"
        /\ pPc \in {"ended", "failed"}
        /\ uPc[c] = "returned"
        /\ Len(got[c]) = 2
        /\ got[c][1].st = ASYNC_ITERABLE_STATUS_YIELD
        /\ buffer[c] = <<Interrupt>>

\* ------------------------------------------------------------------------
\* Claims about abandoning the output while a step is in flight
\* ------------------------------------------------------------------------
\* The entries of the abandoned output whose step is still in flight.
C33_InFlight == {c \in closing : st[c] = "await"}

\* While the abandonment is under way the cleanup request of an entry whose
\* step is in flight is queued and its source's cleanup has not been invoked;
\* the abandonment is under way exactly as long as there is such an entry.
C33_Queued ==
    /\ sPc = "closing" =>
          /\ mPc = "cleanup"
          /\ C33_InFlight # {}
          /\ \A c \in C33_InFlight : retq[c] /\ returns[c] = 0
    /\ sPc = "returned" /\ mPc = "done" =>
          /\ C33_InFlight = {}
          /\ \A c \in closing : st[c] \in {"done", "threw"} /\ ~(kind[c] = "I" /\ returns[c] = 0)

\* The step in which the consumer abandons the output: an entry whose step is
\* in flight stays as it is, with the request queued, and the abandonment is
\* complete in that step only if there is no such entry.
C33_Abandons ==
    sPc = "line" /\ sPc' \in {"closing", "returned"} =>
        /\ \A c \in SeqToSet(activeIterators) :
              st[c] = "await" =>
                  /\ c \in closing'
                  /\ st'[c] = "await"
                  /\ retq'[c]
                  /\ returns'[c] = returns[c]
        /\ sPc' = "returned" <=> \A c \in SeqToSet(activeIterators) : st[c] # "await"

\* A step of the abandoned output: the cleanup of a source is invoked only
\* in the step in which its in-flight step settles, and the abandonment
\* completes only in a step in which the last in-flight step settles.
C33_Settles ==
    sPc = "closing" =>
        /\ \A c \in C33_InFlight :
              \/ st'[c] = "await" /\ returns'[c] = 0 /\ retq'[c]
              \/ st'[c] \in {"done", "threw"} /\ returns'[c] = CloseCount(kind[c])
        /\ sPc' \in {"closing", "returned"}
        /\ sPc' = "returned" <=> \A c \in C33_InFlight : st'[c] # "await"

\* C33: when the consumer abandons the output of stringifyAsync while the
\* next step of an active channel is in flight, the return() of that channel
\* waits behind the step: until the step has settled the source's cleanup is
\* not invoked and the abandonment is not complete, it is invoked in the
\* step in which the source's step settles, and the abandonment completes
\* only when the last such step has settled, so never if one never settles.
C33_CleanupWaits == []C33_Queued /\ [][C33_Abandons /\ C33_Settles]_vars

C33_Witness ==
    /\ sPc = "closing"
    /\ \E c, d \in closing :
          /\ kind[c] = "I" /\ st[c] = "await" /\ retq[c] /\ yields[c] = 1
          /\ kind[d] = "I" /\ st[d] = "done" /\ returns[d] = 1

\* ------------------------------------------------------------------------
\* Claims about the stream adapters
\* ------------------------------------------------------------------------
\* The items of an iterator with n items, in order.
C34_Items(n) == [i \in 1..n |-> i]

\* C34: asyncIterableFrom(readableStreamFrom(it)) yields the items of it in
\* order, and when it has reported done, so that the stream has closed, a
\* generator that its consumer did not end has yielded every item and has
\* finished by reporting done, without raising, with the lock released.
C34_CompletesNormally ==
    pipe.aif.pc # "absent" =>
        /\ IsPrefix(pipe.aif.got, C34_Items(pipe.it.n))
        /\ (pipe.aif.pc \in {"done", "threw"} /\ ~pipe.aif.ret /\ pipe.it.end = "done") =>
              /\ pipe.rs.state = "closed"
              /\ pipe.aif.got = C34_Items(pipe.it.n)
              /\ pipe.aif.released
              /\ ~pipe.rs.locked
              /\ pipe.aif.pc = "done"

\* The iterator behind the stream has finished on its own, by reporting
\* done or by throwing, and not by a return().
C35_Ended(e) ==
    /\ pipe.it.fin
    /\ pipe.it.pc = "idle"
    /\ pipe.it.returns = 0
    /\ pipe.it.end = e

\* What holds of readableStreamFrom(it) in every state.
C35_Always ==
    /\ pipe.it.nexts = pipe.rs.pulls
    /\ pipe.it.returns = pipe.rs.cancels
    /\ pipe.rs.cancels <= 1
    /\ pipe.rs.closeRequested => pipe.it.fin /\ pipe.it.end = "done" /\ pipe.it.sent = pipe.it.n
    /\ C35_Ended("done") => pipe.rs.closeRequested
    /\ C35_Ended("throws") => pipe.rs.state = "errored"
    /\ pipe.rs.state = "closed" /\ pipe.rs.cancels = 0 =>
          pipe.rs.closeRequested /\ pipe.rs.queue = <<>>
    /\ pipe.rs.state = "closed" <=>
          pipe.rs.cancels = 1 \/ (pipe.rs.closeRequested /\ pipe.rs.queue = <<>>)
    /\ pipe.rs.cancels = 1 =>
          IF pipe.it.pc = "busy" THEN pipe.it.retq /\ ~pipe.it.served
          ELSE /\ pipe.it.fin
               /\ pipe.it.served \/ pipe.it.nexts = 0 \/ pipe.it.sent = pipe.it.n
    /\ pipe.it.served => pipe.rs.cancels = 1 /\ pipe.it.sent > 0

\* A step of readableStreamFrom(it): a cancel of a readable stream closes
\* it and invokes return() once, in that step, without a request for an
\* item; afterwards no item is requested and return() is not invoked again.
C35_Step ==
    /\ pipe'.rs.cancels > pipe.rs.cancels =>
          /\ pipe.rs.state = "readable"
          /\ pipe'.rs.state = "closed"
          /\ pipe'.it.returns = pipe.it.returns + 1
          /\ pipe'.it.nexts = pipe.it.nexts
    /\ pipe'.rs.calls > pipe.rs.calls /\ pipe.rs.state = "readable" =>
          pipe'.rs.cancels = pipe.rs.cancels + 1
    /\ pipe.rs.cancels = 1 =>
          /\ pipe'.it.nexts = pipe.it.nexts
          /\ pipe'.it.returns = pipe.it.returns
          /\ pipe'.rs.pulls = pipe.rs.pulls
    /\ pipe'.it.nexts \in {pipe.it.nexts, pipe.it.nexts + 1}

\* C35: the stream of readableStreamFrom(it) asks it for exactly one item in
\* each pull; it is closed by the source exactly when it has reported done
\* (and the queued chunks have been read) and is errored when it throws; a
\* cancel of the readable stream invokes the iterator's return() exactly
\* once, a further cancel does nothing, and after the cancel no item is
\* requested.  The return() reaches a generator such as stringifyAsync at
\* its yield, at once or once the step in flight has settled, so that its
\* cleanup runs, unless the generator had not started or had finished.
C35_PullAndCancel == []C35_Always /\ [][C35_Step]_vars

C35_Witness ==
    /\ pipe.aif.pc = "absent"
    /\ pipe.rs.calls = 2
    /\ pipe.rs.cancels = 1
    /\ pipe.it.returns = 1
    /\ pipe.it.served
    /\ pipe.it.nexts = 2
    /\ pipe.it.sent = 2
    /\ Len(pipe.taken) >= 1
====
